---- MODULE Spec2Model ----
(***************************************************************************)
(* The task API of the HMCTS Task Manager: the express router of           *)
(* routes/tasks.js (validation chains, the six handlers and their response *)
(* envelopes) on top of the sqlite-backed Database class.                  *)
(*                                                                         *)
(* Strings are sequences of one-character strings, so that trimming, the   *)
(* length checks, the ISO-8601 check, SQLite's column affinity and its     *)
(* byte-wise text comparison are computed as the libraries compute them.   *)
(* A JSON or SQLite value is Null, Str(chars) or Num(n).  A request body   *)
(* is a record holding exactly the keys the client sent.                   *)
(***************************************************************************)
EXTENDS Integers, Sequences, FiniteSets, TLC

VARIABLES
    rows,      \* the rows of table tasks
    seq,       \* sqlite_sequence of table tasks: the largest id ever assigned
    now,       \* CURRENT_TIMESTAMP, in seconds
    pc,        \* "idle" | "handling" | "done": the request in flight
    req,       \* the request in flight: [op, id, body]
    res,       \* the response written for it: [status, body]
    dbCalls,   \* the Database methods the handler called for it, in order
    issued,    \* history: the ids returned by successful creates
    deleted,   \* history: the ids of successful deletes
    flight,    \* the concurrent server: the request of each connection
    proc,      \* the concurrent server: "running" | "closing" | "closed" | "exited"
    caught,    \* history: the connections whose request a signal found in flight
    view,      \* the client: its Router, the page elements and the session history
    mgr,       \* the client: the fields of its TaskManager and what its page shows
    runs,      \* the client: the calls of its asynchronous handlers in progress
    remote,    \* the tasks of the server the client talks to
    erased,    \* history: the ids of the tasks deleted from the edit page
    latest     \* history: the loadTasks call that was issued last

vars == <<rows, seq, now, pc, req, res, dbCalls, issued, deleted, flight, proc, caught,
          view, mgr, runs, remote, erased, latest>>

\* the state of the server that serves requests concurrently
server == <<flight, proc, caught>>

\* the state of the router that serves one request at a time
router == <<pc, req, res, dbCalls, issued, deleted>>

\* the state of the TaskManager of the client and of what it talks to
manager == <<mgr, runs, remote, erased, latest>>

\* the state of the single-page client
client == <<view, manager>>

----------------------------------------------------------------------------
(* Bounds of the model *)

\* creates accepted in one behaviour
MaxId == 2
\* seconds the clock advances in one behaviour
MaxClock == 1
\* requests the concurrent server has in flight at a time
MaxInFlight == 2

----------------------------------------------------------------------------
(* Values *)

Null == [t |-> "null"]
Str(s) == [t |-> "str", v |-> s]
Num(n) == [t |-> "num", v |-> n]

IsStr(x) == x.t = "str"
IsNum(x) == x.t = "num"

DigitChars == {"0", "1", "2", "3", "4", "5", "6", "7", "8", "9"}

Digit(c) ==
    CASE c = "0" -> 0 [] c = "1" -> 1 [] c = "2" -> 2 [] c = "3" -> 3
      [] c = "4" -> 4 [] c = "5" -> 5 [] c = "6" -> 6 [] c = "7" -> 7
      [] c = "8" -> 8 [] c = "9" -> 9

\* the byte of a character, for the characters the model's strings use
Byte(c) ==
    CASE c = " " -> 32 [] c = "+" -> 43 [] c = "-" -> 45 [] c = ":" -> 58
      [] c = "T" -> 84 [] c = "Z" -> 90
      [] c \in DigitChars -> 48 + Digit(c)
      [] OTHER -> 97

AllDigits(s) == \A i \in 1..Len(s) : s[i] \in DigitChars

RECURSIVE ToInt(_)
ToInt(s) == IF s = <<>> THEN 0 ELSE 10 * ToInt(SubSeq(s, 1, Len(s) - 1)) + Digit(s[Len(s)])

\* the two-digit number at positions i, i+1
Num2(s, i) == 10 * Digit(s[i]) + Digit(s[i + 1])

----------------------------------------------------------------------------
(* express-validator / validator.js *)

WhiteSpace == {" ", "\t", "\n"}

RECURSIVE LTrim(_)
LTrim(s) == IF s # <<>> /\ Head(s) \in WhiteSpace THEN LTrim(Tail(s)) ELSE s

RECURSIVE RTrim(_)
RTrim(s) ==
    IF s # <<>> /\ s[Len(s)] \in WhiteSpace THEN RTrim(SubSeq(s, 1, Len(s) - 1)) ELSE s

\* the trim() sanitizer, on a string
trim(s) == LTrim(RTrim(s))

\* the string a validator or sanitizer sees for a field value: '' for null
toString(x) == IF IsStr(x) THEN x.v ELSE <<>>

isLength(s, min, max) == Len(s) >= min /\ Len(s) <= max

MaxTitleLen == 255
MaxDescLen == 1000

Pending == <<"p", "e", "n", "d", "i", "n", "g">>
InProgress == <<"i", "n", "_", "p", "r", "o", "g", "r", "e", "s", "s">>
Completed == <<"c", "o", "m", "p", "l", "e", "t", "e", "d">>
Cancelled == <<"c", "a", "n", "c", "e", "l", "l", "e", "d">>

StatusValues == {Pending, InProgress, Completed, Cancelled}

\* isIn that accepts every value
isIn_Any(s, list) == TRUE

isIn(s, list) == s \in list

\* s matches pat, where "#" in pat stands for a digit and any other
\* character for itself
Matches(s, pat) ==
    /\ Len(s) = Len(pat)
    /\ \A i \in 1..Len(pat) :
          IF pat[i] = "#" THEN s[i] \in DigitChars ELSE s[i] = pat[i]

PatYear == <<"#", "#", "#", "#">>
PatDate == PatYear \o <<"-", "#", "#", "-", "#", "#">>
PatDateTime == PatDate \o <<"T", "#", "#", ":", "#", "#", ":", "#", "#">>
PatUtc == PatDateTime \o <<"Z">>
PatPlus == PatDateTime \o <<"+", "#", "#", ":", "#", "#">>
PatMinus == PatDateTime \o <<"-", "#", "#", ":", "#", "#">>

DateInRange(s) == Num2(s, 6) \in 1..12 /\ Num2(s, 9) \in 1..31
TimeInRange(s) == Num2(s, 12) \in 0..23 /\ Num2(s, 15) \in 0..59 /\ Num2(s, 18) \in 0..59
ZoneInRange(s) == Num2(s, 21) \in 0..23 /\ Num2(s, 24) \in 0..59

\* isISO8601 without the strict option, for the shapes of the regular
\* expression that the model's strings take: a year, a calendar date, and a
\* calendar date and time with Z or a numeric offset.  Month, day, hour,
\* minute and second ranges are checked; the day is not checked against
\* the month.
isISO8601(s) ==
    \/ Matches(s, PatYear)
    \/ Matches(s, PatDate) /\ DateInRange(s)
    \/ Matches(s, PatUtc) /\ DateInRange(s) /\ TimeInRange(s)
    \/ /\ Matches(s, PatPlus) \/ Matches(s, PatMinus)
       /\ DateInRange(s) /\ TimeInRange(s) /\ ZoneInRange(s)

\* isInt({ min: 1 }) on the path parameter: /^[-+]?[0-9]+$/ and value >= 1
isIntMin1(s) ==
    LET digs == IF s # <<>> /\ Head(s) \in {"-", "+"} THEN Tail(s) ELSE s
    IN  /\ digs # <<>>
        /\ AllDigits(digs)
        /\ Head(s) # "-"
        /\ ToInt(digs) >= 1

----------------------------------------------------------------------------
(* SQLite: table tasks *)

\* the value a JavaScript undefined stands for
Undefined == [t |-> "undefined"]

\* body[f], as JavaScript reads a property
Field(body, f) == IF f \in DOMAIN body THEN body[f] ELSE Undefined

\* node-sqlite3 binds undefined as NULL
Bind(x) == IF x = Undefined THEN Null ELSE x

\* a column declared DATETIME has NUMERIC affinity: a text that is a
\* well-formed integer literal is stored as that INTEGER, any other value
\* as it is
NumericAffinity(x) ==
    IF IsStr(x) /\ x.v # <<>> /\ AllDigits(x.v) THEN Num(ToInt(x.v)) ELSE x

\* the value stored in column f when x is written to it
Stored(f, x) == IF f = "due_date" THEN NumericAffinity(Bind(x)) ELSE Bind(x)

\* memcmp of two texts (BINARY collation): a < b
RECURSIVE TextLess(_, _)
TextLess(a, b) ==
    IF b = <<>> THEN FALSE
    ELSE IF a = <<>> THEN TRUE
    ELSE IF Byte(Head(a)) # Byte(Head(b)) THEN Byte(Head(a)) < Byte(Head(b))
    ELSE TextLess(Tail(a), Tail(b))

\* ORDER BY ... ASC on two stored values: NULL, then numbers, then texts
SqlLess(a, b) ==
    CASE a.t = "null" -> b.t # "null"
      [] a.t = "num" -> IF b.t = "num" THEN a.v < b.v ELSE b.t = "str"
      [] OTHER -> b.t = "str" /\ TextLess(a.v, b.v)

\* a text that is a well-formed integer literal
IntegerText(s) ==
    LET digs == IF s # <<>> /\ Head(s) \in {"+", "-"} THEN Tail(s) ELSE s
    IN  digs # <<>> /\ AllDigits(digs)

IntegerValue(s) ==
    IF Head(s) = "-" THEN 0 - ToInt(Tail(s))
    ELSE IF Head(s) = "+" THEN ToInt(Tail(s))
    ELSE ToInt(s)

\* WHERE id = ?: column id has INTEGER affinity, so a text parameter that
\* is an integer literal is compared as that integer, and any other text
\* equals no id
IdEquals(rowid, id) ==
    IF IsNum(id) THEN rowid = id.v
    ELSE IsStr(id) /\ IntegerText(id.v) /\ rowid = IntegerValue(id.v)

\* NOT NULL and CHECK constraints of the table, on a row to be written
ConstraintsHold(r) ==
    /\ r.title # Null
    /\ r.status # Null
    /\ IsStr(r.status) /\ r.status.v \in StatusValues
    /\ r.due_date # Null

ConstraintError == "SQLITE_CONSTRAINT"
NotFoundError == "Task not found"
NoFieldsError == "No valid fields to update"

AllowedFields == {"title", "description", "status", "due_date"}

\* NextRowId without AUTOINCREMENT: one more than the largest id in the table
NextRowId_LargestStored(rs, sq) ==
    LET used == {r.id : r \in rs} \cup {0}
    IN  1 + CHOOSE m \in used : \A n \in used : n <= m

\* the id AUTOINCREMENT assigns: one more than the largest id ever used
NextRowId(rs, sq) ==
    LET used == {r.id : r \in rs} \cup {sq}
    IN  1 + CHOOSE m \in used : \A n \in used : n <= m

\* createTask binding the empty string for a description left out
createTask_EmptyDescription(rs, sq, t, task) ==
    LET id == NextRowId(rs, sq)
        description == IF Field(task, "description") = Undefined
                       THEN Str(<<>>) ELSE Field(task, "description")
        row == [id |-> id,
                title |-> Stored("title", Field(task, "title")),
                description |-> Stored("description", description),
                status |-> Stored("status", Field(task, "status")),
                due_date |-> Stored("due_date", Field(task, "due_date")),
                created_at |-> t,
                updated_at |-> t]
    IN  IF ConstraintsHold(row)
        THEN [ok |-> TRUE,
              value |-> [id |-> Num(id),
                         title |-> Field(task, "title"),
                         description |-> description,
                         status |-> Field(task, "status"),
                         due_date |-> Field(task, "due_date")],
              rows |-> rs \cup {row}, seq |-> id]
        ELSE [ok |-> FALSE, error |-> ConstraintError, rows |-> rs, seq |-> sq]

\* Database.createTask: what the promise settles with, and the table after
createTask(rs, sq, t, task) ==
    LET id == NextRowId(rs, sq)
        description == IF Field(task, "description") = Undefined
                       THEN Null ELSE Field(task, "description")
        row == [id |-> id,
                title |-> Stored("title", Field(task, "title")),
                description |-> Stored("description", description),
                status |-> Stored("status", Field(task, "status")),
                due_date |-> Stored("due_date", Field(task, "due_date")),
                created_at |-> t,
                updated_at |-> t]
    IN  IF ConstraintsHold(row)
        THEN [ok |-> TRUE,
              value |-> [id |-> Num(id),
                         title |-> Field(task, "title"),
                         description |-> description,
                         status |-> Field(task, "status"),
                         due_date |-> Field(task, "due_date")],
              rows |-> rs \cup {row}, seq |-> id]
        ELSE [ok |-> FALSE, error |-> ConstraintError, rows |-> rs, seq |-> sq]

\* a row as the driver returns it
RowObject(r) ==
    [id |-> Num(r.id), title |-> r.title, description |-> r.description,
     status |-> r.status, due_date |-> r.due_date,
     created_at |-> Num(r.created_at), updated_at |-> Num(r.updated_at)]

Matching(rs, id) == {r \in rs : IdEquals(r.id, id)}

\* Database.getTaskById: the row, or undefined
getTaskById(rs, id) ==
    IF Matching(rs, id) = {} THEN Undefined
    ELSE RowObject(CHOOSE r \in Matching(rs, id) : TRUE)

\* getAllTasks with WHERE status = 'pending'
getAllTasks_PendingOnly(rs) ==
    LET shown == {r \in rs : r.status = Str(Pending)}
        n == Cardinality(shown)
    IN  {[i \in 1..n |-> RowObject(s[i])] :
            s \in {q \in [1..n -> shown] :
                     /\ \A i, j \in 1..n : i # j => q[i] # q[j]
                     /\ \A i, j \in 1..n :
                           i < j => ~SqlLess(q[j].due_date, q[i].due_date)}}

\* Database.getAllTasks: SELECT * FROM tasks ORDER BY due_date ASC.  The
\* order of rows with equal due_date is not specified: every sequence the
\* query may return
getAllTasks(rs) ==
    LET n == Cardinality(rs)
    IN  {[i \in 1..n |-> RowObject(s[i])] :
            s \in {q \in [1..n -> rs] :
                     /\ \A i, j \in 1..n : i # j => q[i] # q[j]
                     /\ \A i, j \in 1..n :
                           i < j => ~SqlLess(q[j].due_date, q[i].due_date)}}

\* updateTaskStatus that writes the zero timestamp to updated_at
updateTaskStatus_ZeroTimestamp(rs, t, id, status) ==
    LET hit == Matching(rs, id)
        new == {[r EXCEPT !.status = Stored("status", status), !.updated_at = 0] : r \in hit}
    IN  IF \E r \in new : ~ConstraintsHold(r)
        THEN [ok |-> FALSE, error |-> ConstraintError, rows |-> rs]
        ELSE IF hit = {}
        THEN [ok |-> FALSE, error |-> NotFoundError, rows |-> rs]
        ELSE [ok |-> TRUE,
              value |-> [id |-> id, status |-> status, updated |-> TRUE],
              rows |-> (rs \ hit) \cup new]

\* updateTaskStatus that resolves although no row changed
updateTaskStatus_NoChangesCheck(rs, t, id, status) ==
    LET hit == Matching(rs, id)
        new == {[r EXCEPT !.status = Stored("status", status), !.updated_at = t] : r \in hit}
    IN  IF \E r \in new : ~ConstraintsHold(r)
        THEN [ok |-> FALSE, error |-> ConstraintError, rows |-> rs]
        ELSE [ok |-> TRUE,
              value |-> [id |-> id, status |-> status, updated |-> TRUE],
              rows |-> (rs \ hit) \cup new]

\* updateTaskStatus whose UPDATE has no WHERE clause
updateTaskStatus_AllRows(rs, t, id, status) ==
    LET hit == Matching(rs, id)
        new == {[r EXCEPT !.status = Stored("status", status), !.updated_at = t] : r \in rs}
    IN  IF \E r \in new : ~ConstraintsHold(r)
        THEN [ok |-> FALSE, error |-> ConstraintError, rows |-> rs]
        ELSE IF hit = {}
        THEN [ok |-> FALSE, error |-> NotFoundError, rows |-> rs]
        ELSE [ok |-> TRUE,
              value |-> [id |-> id, status |-> status, updated |-> TRUE],
              rows |-> new]

\* Database.updateTaskStatus
updateTaskStatus(rs, t, id, status) ==
    LET hit == Matching(rs, id)
        new == {[r EXCEPT !.status = Stored("status", status), !.updated_at = t] : r \in hit}
    IN  IF \E r \in new : ~ConstraintsHold(r)
        THEN [ok |-> FALSE, error |-> ConstraintError, rows |-> rs]
        ELSE IF hit = {}
        THEN [ok |-> FALSE, error |-> NotFoundError, rows |-> rs]
        ELSE [ok |-> TRUE,
              value |-> [id |-> id, status |-> status, updated |-> TRUE],
              rows |-> (rs \ hit) \cup new]

\* Assign that leaves updated_at as it was
Assign_KeepsUpdatedAt(r, t, updates) ==
    [k \in DOMAIN r |->
        IF k \in DOMAIN updates \cap AllowedFields THEN Stored(k, updates[k])
        ELSE r[k]]

\* Assign as REPLACE INTO: created_at takes its default again
Assign_ResetsCreatedAt(r, t, updates) ==
    [k \in DOMAIN r |->
        IF k \in DOMAIN updates \cap AllowedFields THEN Stored(k, updates[k])
        ELSE IF k \in {"updated_at", "created_at"} THEN t
        ELSE r[k]]

\* Assign as a replacement of the whole task: a description that is not
\* among the updates is cleared
Assign_ClearsAbsentDescription(r, t, updates) ==
    [k \in DOMAIN r |->
        IF k \in DOMAIN updates \cap AllowedFields THEN Stored(k, updates[k])
        ELSE IF k = "description" THEN Null
        ELSE IF k = "updated_at" THEN t
        ELSE r[k]]

\* the row r after UPDATE tasks SET <the allowed keys of updates>,
\* updated_at = CURRENT_TIMESTAMP
Assign(r, t, updates) ==
    [k \in DOMAIN r |->
        IF k \in DOMAIN updates \cap AllowedFields THEN Stored(k, updates[k])
        ELSE IF k = "updated_at" THEN t
        ELSE r[k]]

\* updateTask as REPLACE INTO: a row is written whether or not one exists
updateTask_Upsert(rs, t, id, updates) ==
    LET hit == Matching(rs, id)
        blank == [id |-> IntegerValue(id.v), title |-> Null, description |-> Null,
                  status |-> Null, due_date |-> Null, created_at |-> t, updated_at |-> t]
        new == {Assign(r, t, updates) : r \in IF hit = {} THEN {blank} ELSE hit}
    IN  IF DOMAIN updates \cap AllowedFields = {}
        THEN [ok |-> FALSE, error |-> NoFieldsError, rows |-> rs]
        ELSE IF \E r \in new : ~ConstraintsHold(r)
        THEN [ok |-> FALSE, error |-> ConstraintError, rows |-> rs]
        ELSE [ok |-> TRUE,
              value |-> [k \in DOMAIN updates \cup {"id", "updated"} |->
                           IF k = "updated" THEN TRUE
                           ELSE IF k \in DOMAIN updates THEN updates[k]
                           ELSE id],
              rows |-> (rs \ hit) \cup new]

\* Database.updateTask
updateTask(rs, t, id, updates) ==
    LET hit == Matching(rs, id)
        new == {Assign(r, t, updates) : r \in hit}
    IN  IF DOMAIN updates \cap AllowedFields = {}
        THEN [ok |-> FALSE, error |-> NoFieldsError, rows |-> rs]
        ELSE IF \E r \in new : ~ConstraintsHold(r)
        THEN [ok |-> FALSE, error |-> ConstraintError, rows |-> rs]
        ELSE IF hit = {}
        THEN [ok |-> FALSE, error |-> NotFoundError, rows |-> rs]
        ELSE [ok |-> TRUE,
              value |-> [k \in DOMAIN updates \cup {"id", "updated"} |->
                           IF k = "updated" THEN TRUE
                           ELSE IF k \in DOMAIN updates THEN updates[k]
                           ELSE id],
              rows |-> (rs \ hit) \cup new]

\* deleteTask whose DELETE has no WHERE clause
deleteTask_AllRows(rs, id) ==
    LET hit == Matching(rs, id)
    IN  IF hit = {}
        THEN [ok |-> FALSE, error |-> NotFoundError, rows |-> rs]
        ELSE [ok |-> TRUE, value |-> [id |-> id, deleted |-> TRUE], rows |-> {}]

\* deleteTask as a soft delete whose reads do not filter: the row stays
deleteTask_KeepsRow(rs, id) ==
    LET hit == Matching(rs, id)
    IN  IF hit = {}
        THEN [ok |-> FALSE, error |-> NotFoundError, rows |-> rs]
        ELSE [ok |-> TRUE, value |-> [id |-> id, deleted |-> TRUE], rows |-> rs]

\* Database.deleteTask
deleteTask(rs, id) ==
    LET hit == Matching(rs, id)
    IN  IF hit = {}
        THEN [ok |-> FALSE, error |-> NotFoundError, rows |-> rs]
        ELSE [ok |-> TRUE, value |-> [id |-> id, deleted |-> TRUE], rows |-> rs \ hit]

----------------------------------------------------------------------------
(* routes/tasks.js: validation *)

FieldError(path, msg) == [type |-> "field", path |-> path, msg |-> msg, location |-> "body"]

TitleRequiredMsg == "Title is required and must be between 1 and 255 characters"
TitleMsg == "Title must be between 1 and 255 characters"
DescriptionMsg == "Description must not exceed 1000 characters"
StatusMsg == "Status must be one of: pending, in_progress, completed, cancelled"
DueDateMsg == "Due date must be a valid ISO 8601 date"
IdMsg == "ID must be a positive integer"

\* the errors of one chain: none when it is skipped or its validator passes
ChainErrors(run, passes, path, msg) ==
    IF run /\ ~passes THEN <<FieldError(path, msg)>> ELSE <<>>

\* body after the trim() sanitizer of a title chain that ran
Sanitize(body, run) ==
    IF run
    THEN [k \in DOMAIN body \cup {"title"} |->
            IF k = "title" THEN Str(trim(toString(Field(body, "title")))) ELSE body[k]]
    ELSE body

\* a chain with optional() runs only when the field is not undefined
Present(body, f) == Field(body, f) # Undefined

\* the four body chains; optional tells validateTaskUpdate from validateTask
BodyErrors(body, optional) ==
    LET runTitle == ~optional \/ Present(body, "title")
        runStatus == ~optional \/ Present(body, "status")
        runDue == ~optional \/ Present(body, "due_date")
    IN  ChainErrors(runTitle,
                    isLength(trim(toString(Field(body, "title"))), 1, MaxTitleLen),
                    "title", IF optional THEN TitleMsg ELSE TitleRequiredMsg)
        \o ChainErrors(Present(body, "description"),
                       isLength(toString(Field(body, "description")), 0, MaxDescLen),
                       "description", DescriptionMsg)
        \o ChainErrors(runStatus,
                       isIn(toString(Field(body, "status")), StatusValues),
                       "status", StatusMsg)
        \o ChainErrors(runDue,
                       isISO8601(toString(Field(body, "due_date"))),
                       "due_date", DueDateMsg)

\* validateTask: the errors it records and the body it leaves
validateTask(body) ==
    [errors |-> BodyErrors(body, FALSE), body |-> Sanitize(body, TRUE)]

\* validateTaskUpdate
validateTaskUpdate(body) ==
    [errors |-> BodyErrors(body, TRUE), body |-> Sanitize(body, Present(body, "title"))]

\* a route without validateId
validateId_Off(id) == <<>>

\* the integer a path id that validateId accepts denotes
IdOf(id) == ToInt(IF Head(id) = "+" THEN Tail(id) ELSE id)

\* validateId
validateId(id) ==
    IF isIntMin1(id) THEN <<>>
    ELSE <<[type |-> "field", path |-> "id", msg |-> IdMsg, location |-> "params"]>>

----------------------------------------------------------------------------
(* routes/tasks.js: response envelopes *)

Response(status, body) == [status |-> status, body |-> body]

\* handleValidationErrors, when validationResult is not empty
ValidationFailed(errors) ==
    Response(400, [success |-> FALSE, error |-> "Validation failed", details |-> errors])

NotFound == Response(404, [success |-> FALSE, error |-> "Task not found"])

\* the catch block's last response
Failed(summary, message) ==
    Response(500, [success |-> FALSE, error |-> summary, message |-> message])

NoReq == [op |-> "none"]
NoRes == Response(0, [none |-> TRUE])

\* what a handler leaves behind: the response, the table, the calls it made
Finish(response, newRows, newSeq, calls) ==
    /\ res' = response
    /\ rows' = newRows
    /\ seq' = newSeq
    /\ dbCalls' = calls
    /\ pc' = "done"
    /\ UNCHANGED <<now, req, server, client>>

----------------------------------------------------------------------------
(* routes/tasks.js: the six handlers, each with its middleware *)

\* GET /api/tasks
HandleGetAll ==
    /\ pc = "handling" /\ req.op = "list"
    /\ \E tasks \in getAllTasks(rows) :
          Finish(Response(200, [success |-> TRUE, data |-> tasks, count |-> Len(tasks)]),
                 rows, seq, <<"getAllTasks">>)
    /\ UNCHANGED <<issued, deleted>>

\* GET /api/tasks/:id
HandleGetById ==
    /\ pc = "handling" /\ req.op = "get"
    /\ LET errors == validateId(req.id)
           task == getTaskById(rows, Str(req.id))
       IN  IF errors # <<>>
           THEN Finish(ValidationFailed(errors), rows, seq, <<>>)
           ELSE IF task = Undefined
           THEN Finish(NotFound, rows, seq, <<"getTaskById">>)
           ELSE Finish(Response(200, [success |-> TRUE, data |-> task]),
                       rows, seq, <<"getTaskById">>)
    /\ UNCHANGED <<issued, deleted>>

\* POST /api/tasks
HandlePost ==
    /\ pc = "handling" /\ req.op = "post"
    /\ LET v == validateTask(req.body)
           task == [k \in DOMAIN v.body \cap AllowedFields |-> v.body[k]]
           r == createTask(rows, seq, now, task)
       IN  IF v.errors # <<>>
           THEN Finish(ValidationFailed(v.errors), rows, seq, <<>>) /\ UNCHANGED issued
           ELSE IF r.ok
           THEN /\ Finish(Response(201, [success |-> TRUE, data |-> r.value,
                                         message |-> "Task created successfully"]),
                          r.rows, r.seq, <<"createTask">>)
                /\ issued' = issued \cup {r.value.id.v}
           ELSE /\ Finish(Failed("Failed to create task", r.error),
                          r.rows, r.seq, <<"createTask">>)
                /\ UNCHANGED issued
    /\ UNCHANGED deleted

\* HandlePut without the check for an empty set of updates
HandlePut_NoEmptyCheck ==
    /\ pc = "handling" /\ req.op = "put"
    /\ LET v == validateTaskUpdate(req.body)
           errors == validateId(req.id) \o v.errors
           updates == [k \in {f \in AllowedFields : Present(v.body, f)} |-> v.body[k]]
           r == updateTask(rows, now, Str(req.id), updates)
       IN  IF errors # <<>>
           THEN Finish(ValidationFailed(errors), rows, seq, <<>>)
           ELSE IF r.ok
           THEN Finish(Response(200, [success |-> TRUE, data |-> r.value,
                                      message |-> "Task updated successfully"]),
                       r.rows, seq, <<"updateTask">>)
           ELSE IF r.error = NotFoundError
           THEN Finish(NotFound, r.rows, seq, <<"updateTask">>)
           ELSE Finish(Failed("Failed to update task", r.error),
                       r.rows, seq, <<"updateTask">>)
    /\ UNCHANGED <<issued, deleted>>

\* PUT /api/tasks/:id
HandlePut ==
    /\ pc = "handling" /\ req.op = "put"
    /\ LET v == validateTaskUpdate(req.body)
           errors == validateId(req.id) \o v.errors
           updates == [k \in {f \in AllowedFields : Present(v.body, f)} |-> v.body[k]]
           r == updateTask(rows, now, Str(req.id), updates)
       IN  IF errors # <<>>
           THEN Finish(ValidationFailed(errors), rows, seq, <<>>)
           ELSE IF DOMAIN updates = {}
           THEN Finish(Response(400, [success |-> FALSE,
                                      error |-> "No valid fields provided for update"]),
                       rows, seq, <<>>)
           ELSE IF r.ok
           THEN Finish(Response(200, [success |-> TRUE, data |-> r.value,
                                      message |-> "Task updated successfully"]),
                       r.rows, seq, <<"updateTask">>)
           ELSE IF r.error = NotFoundError
           THEN Finish(NotFound, r.rows, seq, <<"updateTask">>)
           ELSE Finish(Failed("Failed to update task", r.error),
                       r.rows, seq, <<"updateTask">>)
    /\ UNCHANGED <<issued, deleted>>

\* !status in JavaScript: undefined, null and the empty string are falsy
Falsy(x) == x = Undefined \/ x = Null \/ x = Str(<<>>)

\* PATCH /api/tasks/:id/status
HandlePatch ==
    /\ pc = "handling" /\ req.op = "patch"
    /\ LET errors == validateId(req.id)
           status == Field(req.body, "status")
           r == updateTaskStatus(rows, now, Str(req.id), status)
       IN  IF errors # <<>>
           THEN Finish(ValidationFailed(errors), rows, seq, <<>>)
           ELSE IF Falsy(status) \/ ~(IsStr(status) /\ status.v \in StatusValues)
           THEN Finish(Response(400,
                          [success |-> FALSE,
                           error |-> "Valid status is required (pending, in_progress, completed, cancelled)"]),
                       rows, seq, <<>>)
           ELSE IF r.ok
           THEN Finish(Response(200, [success |-> TRUE, data |-> r.value,
                                      message |-> "Task status updated successfully"]),
                       r.rows, seq, <<"updateTaskStatus">>)
           ELSE IF r.error = NotFoundError
           THEN Finish(NotFound, r.rows, seq, <<"updateTaskStatus">>)
           ELSE Finish(Failed("Failed to update task status", r.error),
                       r.rows, seq, <<"updateTaskStatus">>)
    /\ UNCHANGED <<issued, deleted>>

\* DELETE /api/tasks/:id
HandleDelete ==
    /\ pc = "handling" /\ req.op = "delete"
    /\ LET errors == validateId(req.id)
           r == deleteTask(rows, Str(req.id))
       IN  IF errors # <<>>
           THEN Finish(ValidationFailed(errors), rows, seq, <<>>) /\ UNCHANGED deleted
           ELSE IF r.ok
           THEN /\ Finish(Response(200, [success |-> TRUE,
                                         message |-> "Task deleted successfully"]),
                          r.rows, seq, <<"deleteTask">>)
                /\ deleted' = deleted \cup {IdOf(req.id)}
           ELSE IF r.error = NotFoundError
           THEN Finish(NotFound, r.rows, seq, <<"deleteTask">>) /\ UNCHANGED deleted
           ELSE /\ Finish(Failed("Failed to delete task", r.error),
                          r.rows, seq, <<"deleteTask">>)
                /\ UNCHANGED deleted
    /\ UNCHANGED issued

----------------------------------------------------------------------------
(* The clients: the requests the model sends *)

TitleA == <<"a">>
TitlePaddedB == <<" ", "b", " ">>
TitleB == <<"b">>
Blank == <<" ">>
DescD == <<"d">>
Bogus == <<"b", "o", "g", "u", "s">>

\* 2024-12-31T20:00:00Z
Due20Utc == <<"2", "0", "2", "4", "-", "1", "2", "-", "3", "1", "T",
              "2", "0", ":", "0", "0", ":", "0", "0", "Z">>
\* 2024-12-31T23:00:00+05:00, which is 18:00:00Z
Due23Plus5 == <<"2", "0", "2", "4", "-", "1", "2", "-", "3", "1", "T",
                "2", "3", ":", "0", "0", ":", "0", "0", "+", "0", "5", ":", "0", "0">>
\* 2024
DueYear == <<"2", "0", "2", "4">>
\* 2024-02-30T20:00:00Z, a day February does not have
DueFeb30 == <<"2", "0", "2", "4", "-", "0", "2", "-", "3", "0", "T",
              "2", "0", ":", "0", "0", ":", "0", "0", "Z">>
\* invalid-date
DueInvalid == <<"i", "n", "v", "a", "l", "i", "d", "-", "d", "a", "t", "e">>

\* a string of n characters
Long(n) == [i \in 1..n |-> "x"]

BaseBody ==
    [title |-> Str(TitleA), description |-> Str(DescD),
     status |-> Str(Pending), due_date |-> Str(Due20Utc)]

With(b, f, x) == [k \in DOMAIN b \cup {f} |-> IF k = f THEN x ELSE b[k]]
Without(b, f) == [k \in DOMAIN b \ {f} |-> b[k]]
Only(f, x) == [k \in {f} |-> x]
EmptyBody == [k \in {} |-> Null]

\* bodies that are BaseBody with field f set to a value of xs
Varied(f, xs) == {With(BaseBody, f, x) : x \in xs}
\* bodies that hold field f alone, with a value of xs
Single(f, xs) == {Only(f, x) : x \in xs}

\* path ids: two that tasks get, one that no task gets, and malformed ones
PathIds == {<<"1">>, <<"2">>, <<"9">>, <<"0">>, <<"a", "b", "c">>}

RequestsOf(ids, posts, puts, patches) ==
    {[op |-> "list"]}
    \cup {[op |-> o, id |-> i] : o \in {"get", "delete"}, i \in ids}
    \cup {[op |-> "post", body |-> b] : b \in posts}
    \cup {[op |-> "put", id |-> i, body |-> b] : i \in ids, b \in puts}
    \cup {[op |-> "patch", id |-> i, body |-> b] : i \in ids, b \in patches}

\* Spec: every kind of rejected request, few different stored values.
\* POST bodies are BaseBody with at most one field changed or left out.
PostBodies ==
    {BaseBody}
    \cup Varied("title", {Str(<<>>), Str(Blank), Str(Long(MaxTitleLen + 1))})
    \cup Varied("description", {Null, Str(Long(MaxDescLen + 1))})
    \cup Varied("status", {Str(Completed), Str(Bogus)})
    \cup Varied("due_date", {Str(DueInvalid), Str(DueFeb30)})
    \cup {Without(BaseBody, f) : f \in AllowedFields}

\* PUT bodies: one field, no field, an unknown key alone, several fields
PutBodies ==
    Single("title", {Str(TitleA), Str(<<>>), Str(Blank), Null})
    \cup Single("description", {Str(DescD), Null, Str(Long(MaxDescLen + 1))})
    \cup Single("status", {Str(Pending), Str(Completed), Str(Bogus)})
    \cup Single("due_date", {Str(Due20Utc), Str(DueInvalid)})
    \cup {EmptyBody, Only("id", Num(7)),
          [title |-> Str(TitleA), id |-> Num(7), created_at |-> Num(5)],
          [title |-> Str(TitleA), status |-> Str(Bogus)],
          With(BaseBody, "status", Str(Completed))}

\* PATCH bodies: a status, none, and a status among other fields
PatchBodies ==
    Single("status", {Str(Pending), Str(Completed), Str(Bogus), Str(<<>>), Null})
    \cup {EmptyBody,
          [status |-> Str(Completed), id |-> Num(7), created_at |-> Num(5)],
          [status |-> Str(Completed), title |-> Str(TitleB), due_date |-> Str(DueYear)]}

Requests == RequestsOf(PathIds, PostBodies, PutBodies, PatchBodies)

\* SpecFields: accepted requests that store many different values
FieldIds == {<<"1">>, <<"2">>}

FieldPostBodies ==
    {BaseBody, Without(BaseBody, "description")}
    \cup Varied("title", {Str(TitlePaddedB)})
    \cup Varied("status", {Str(Completed)})
    \cup Varied("due_date", {Str(Due23Plus5), Str(DueYear)})

FieldPutBodies ==
    Single("title", {Str(TitleA), Str(TitlePaddedB)})
    \cup Single("description", {Str(DescD), Null})
    \cup Single("status", {Str(Pending), Str(Completed)})
    \cup Single("due_date", {Str(Due20Utc), Str(Due23Plus5), Str(DueYear)})
    \cup {[title |-> Str(TitlePaddedB), status |-> Str(Completed)],
          [description |-> Null, due_date |-> Str(Due23Plus5)]}

FieldPatchBodies ==
    Single("status", {Str(Pending), Str(Completed)})
    \cup {[status |-> Str(Completed), title |-> Str(TitleB), due_date |-> Str(DueYear)]}

FieldRequests == RequestsOf(FieldIds, FieldPostBodies, FieldPutBodies, FieldPatchBodies)

\* the connections the concurrent server serves at a time
Slots == 1..MaxInFlight

\* a connection without a request
Free == [stage |-> "free"]

\* a client sends a request; creates stop once MaxId ids are assigned
Receive(r) ==
    /\ pc = "idle"
    /\ r.op = "post" => seq < MaxId
    /\ req' = r
    /\ pc' = "handling"
    /\ UNCHANGED <<rows, seq, now, res, dbCalls, issued, deleted, server, client>>

\* the response has gone out
Deliver ==
    /\ pc = "done"
    /\ pc' = "idle"
    /\ req' = NoReq
    /\ res' = NoRes
    /\ dbCalls' = <<>>
    /\ UNCHANGED <<rows, seq, now, issued, deleted, server, client>>

\* a second passes
Tick ==
    /\ now < MaxClock
    /\ now' = now + 1
    /\ UNCHANGED <<rows, seq, router, server, client>>

\* the error of a statement the store could not run
StorageError == "SQLITE_IOERR: disk I/O error"

-----------------------------------------------------------------------------
(* The client: the router of the single-page application *)

\* the session history holds no more than MaxHistory entries
MaxHistory == 2

PageNames == {"home", "create", "edit"}

\* a path is the sequence of its characters
Root == <<"/">>
CreatePath == <<"/", "c", "r", "e", "a", "t", "e">>
EditPath(x) == <<"/", "e", "d", "i", "t", "/">> \o x
EditNoId == <<"/", "e", "d", "i", "t">>
EditDeep == EditPath(<<"1", "/", "x">>)
UnknownPath == <<"/", "u", "n", "k", "n", "o", "w", "n">>

\* the paths the client is loaded at and navigates to
Paths ==
    {Root, CreatePath, EditPath(<<"1">>), EditPath(<<"2">>), EditPath(<<>>),
     EditNoId, EditDeep, UnknownPath}

\* path.split('/')
RECURSIVE Split(_)
Split(s) ==
    IF \A i \in 1..Len(s) : s[i] # "/"
    THEN <<s>>
    ELSE LET i == CHOOSE i \in 1..Len(s) : s[i] = "/" /\ \A j \in 1..(i - 1) : s[j] # "/"
         IN  <<SubSeq(s, 1, i - 1)>> \o Split(SubSeq(s, i + 1, Len(s)))

\* Router.routes
Routes ==
    <<[path |-> Root, page |-> "home", title |-> "Task Dashboard"],
      [path |-> CreatePath, page |-> "create", title |-> "Create Task"],
      [path |-> <<"/", "e", "d", "i", "t", "/", ":", "i", "d">>, page |-> "edit",
       title |-> "Edit Task"]>>

\* route.path.includes(':')
HasParameter(route) == \E i \in 1..Len(route.path) : route.path[i] = ":"

\* routeParts[i].startsWith(':')
IsParameter(part) == Len(part) > 0 /\ part[1] = ":"

\* the test of one route of the loop of matchRoute
RouteMatches(route, path) ==
    IF HasParameter(route)
    THEN LET routeParts == Split(route.path)
             pathParts == Split(path)
         IN  /\ Len(routeParts) = Len(pathParts)
             /\ \A i \in 1..Len(routeParts) :
                   IsParameter(routeParts[i]) \/ routeParts[i] = pathParts[i]
    ELSE route.path = path

\* the parameters of a parameterized route that matches the path
ParamsOf(route, path) ==
    LET routeParts == Split(route.path)
        pathParts == Split(path)
    IN  {<<SubSeq(routeParts[i], 2, Len(routeParts[i])), pathParts[i]>> :
            i \in {j \in 1..Len(routeParts) : IsParameter(routeParts[j])}}

\* matchRoute that compares the parts of a parameterized route without
\* comparing their number
matchRoute_AnyLength(path) ==
    IF path = Root THEN Routes[1]
    ELSE IF path = CreatePath THEN Routes[2]
    ELSE IF Len(Split(path)) >= 2 /\ Split(path)[2] = <<"e", "d", "i", "t">> THEN Routes[3]
    ELSE Routes[1]

\* Router.matchRoute: the first route that matches, home when none does
matchRoute(path) ==
    IF \E i \in 1..Len(Routes) : RouteMatches(Routes[i], path)
    THEN LET i == CHOOSE i \in 1..Len(Routes) :
                     /\ RouteMatches(Routes[i], path)
                     /\ \A j \in 1..(i - 1) : ~RouteMatches(Routes[j], path)
         IN  IF HasParameter(Routes[i])
             THEN [path |-> Routes[i].path, page |-> Routes[i].page,
                   title |-> Routes[i].title, params |-> ParamsOf(Routes[i], path)]
             ELSE Routes[i]
    ELSE Routes[1]

\* the client is a record: currentPage of the Router, the display of the
\* element of each page ("absent" when the document has none), the entries
\* of the session history and the index of the current one, the title of
\* the document, the calls of the page-change handler made by the latest
\* event, and the page elements as the document was loaded

\* document.querySelector('[data-page="..."]') finds an element
Exists(v, page) == v.display[page] # "absent"

\* window.location.pathname
Pathname(v) == v.entries[v.index]

\* the title of the document of a route
TitleOf(title) == <<title, " - HMCTS Task Manager">>

\* showPage that shows the page without hiding the others
showPage_KeepsOthers(v, page) ==
    IF Exists(v, page)
    THEN [v EXCEPT !.display[page] = "block"]
    ELSE IF Exists(v, "home")
         THEN [v EXCEPT !.display["home"] = "block", !.currentPage = "home"]
         ELSE v

\* Router.showPage
showPage(v, page) ==
    LET hidden == [p \in PageNames |-> IF v.display[p] = "absent" THEN "absent" ELSE "none"]
    IN  IF Exists(v, page)
        THEN [v EXCEPT !.display = [hidden EXCEPT ![page] = "block"]]
        ELSE IF Exists(v, "home")
             THEN [v EXCEPT !.display = [hidden EXCEPT !["home"] = "block"],
                            !.currentPage = "home"]
             ELSE [v EXCEPT !.display = hidden]

\* navigateToPage that calls the handler whether or not the page changes
navigateToPage_AlwaysCalls(v, page) ==
    LET shown == IF v.currentPage # page
                 THEN showPage([v EXCEPT !.currentPage = page], page)
                 ELSE v
    IN  [shown EXCEPT !.handled = Append(@, page)]

\* Router.navigateToPage
navigateToPage(v, page) ==
    IF v.currentPage # page
    THEN LET shown == showPage([v EXCEPT !.currentPage = page], page)
         IN  [shown EXCEPT !.handled = Append(@, page)]
    ELSE v

\* window.history.pushState: the entries after the current one are dropped,
\* and the oldest one when the history is full
pushState(v, path) ==
    LET kept == SubSeq(v.entries, 1, v.index)
        room == IF Len(kept) = MaxHistory THEN Tail(kept) ELSE kept
    IN  [v EXCEPT !.entries = room \o <<path>>, !.index = Len(room) + 1]

\* Router.navigateTo
navigateTo(v, path) ==
    LET route == matchRoute(path)
        moved == navigateToPage(pushState(v, path), route.page)
    IN  [moved EXCEPT !.title = TitleOf(route.title)]

\* Router.handleRouteChange
handleRouteChange(v) ==
    LET route == matchRoute(Pathname(v))
    IN  IF Exists(v, route.page)
        THEN [navigateToPage(v, route.page) EXCEPT !.title = TitleOf(route.title)]
        ELSE [navigateToPage(v, "home") EXCEPT !.title = TitleOf("Task Dashboard")]

\* new Router(onPageChange) in a document loaded at a path
Router(document, path) ==
    handleRouteChange([currentPage |-> "home", display |-> document,
                       entries |-> <<path>>, index |-> 1,
                       title |-> <<>>, handled |-> <<>>, loaded |-> document])

\* the page elements of the document of the router tests
TestDocument == [p \in PageNames |-> IF p = "home" THEN "block" ELSE "none"]

\* the documents a router is constructed in: the home element is absent,
\* has no display of its own or is displayed; the other two are absent or
\* hidden
Documents ==
    {d \in [PageNames -> {"absent", "", "block", "none"}] :
        /\ d["home"] \in {"absent", "", "block"}
        /\ d["create"] \in {"absent", "none"}
        /\ d["edit"] \in {"absent", "none"}}

\* an event starts with no call of the page-change handler
Fresh(v) == [v EXCEPT !.handled = <<>>]

\* a call of router.navigateTo(path)
NavigateTo(path) ==
    /\ view' = navigateTo(Fresh(view), path)
    /\ UNCHANGED <<rows, seq, now, router, server, manager>>

\* the user goes back or forward in the session history: the location
\* changes and the popstate listener runs handleRouteChange
Popstate(delta) ==
    /\ view.index + delta \in 1..Len(view.entries)
    /\ view' = handleRouteChange([Fresh(view) EXCEPT !.index = view.index + delta])
    /\ UNCHANGED <<rows, seq, now, router, server, manager>>

-----------------------------------------------------------------------------
(* The client: taskApi and the TaskManager *)

\* the ids the server of the client assigns go up to MaxTasks
MaxTasks == 1

\* no more than MaxRuns calls of asynchronous handlers are in progress
MaxRuns == 2

TaskIds == 1..MaxTasks
Runs == 1..MaxRuns

\* the tasks of the server: the ids stored and the largest id ever assigned
NoTasks == [ids |-> {}, seq |-> 0]
Remotes == {NoTasks} \cup {[ids |-> 1..n, seq |-> n] : n \in TaskIds}

\* what fetch settles with: a rejection, or a response with ok, status and
\* a body that is JSON text or is not
Down == [net |-> "down"]
Json(status, value) ==
    [net |-> "up", ok |-> status \in 200..299, status |-> status,
     body |-> [json |-> TRUE, value |-> value]]
Text(status) ==
    [net |-> "up", ok |-> status \in 200..299, status |-> status, body |-> [json |-> FALSE]]

\* a request of taskApi on its way
Sent(op, id) == [op |-> op, id |-> id, stage |-> "sent"]

\* the error summary of the server for an operation
SummaryOf(op) ==
    CASE op = "list" -> "Failed to fetch tasks"
      [] op = "post" -> "Failed to create task"
      [] op = "put" -> "Failed to update task"
      [] op = "delete" -> "Failed to delete task"

\* the response of the server that serves the request, with its tasks after
Answer(f, rm) ==
    CASE f.op = "list" ->
            [result |-> Json(200, [success |-> TRUE, data |-> rm.ids,
                                   count |-> Cardinality(rm.ids)]),
             remote |-> rm]
      [] f.op = "post" ->
            IF rm.seq < MaxTasks
            THEN [result |-> Json(201, [success |-> TRUE, data |-> rm.seq + 1,
                                        message |-> "Task created successfully"]),
                  remote |-> [ids |-> rm.ids \cup {rm.seq + 1}, seq |-> rm.seq + 1]]
            ELSE [result |-> Json(500, [success |-> FALSE, error |-> SummaryOf("post"),
                                        message |-> StorageError]),
                  remote |-> rm]
      [] f.op = "put" ->
            IF f.id \in rm.ids
            THEN [result |-> Json(200, [success |-> TRUE, data |-> f.id,
                                        message |-> "Task updated successfully"]),
                  remote |-> rm]
            ELSE [result |-> Json(404, [success |-> FALSE, error |-> "Task not found"]),
                  remote |-> rm]
      [] f.op = "delete" ->
            IF f.id \in rm.ids
            THEN [result |-> Json(200, [success |-> TRUE,
                                        message |-> "Task deleted successfully"]),
                  remote |-> [rm EXCEPT !.ids = @ \ {f.id}]]
            ELSE [result |-> Json(404, [success |-> FALSE, error |-> "Task not found"]),
                  remote |-> rm]

\* what fetch settles with when the response of the server does not reach
\* the client: a non-OK response without an error field, a non-OK response
\* of a proxy whose body is not JSON, an OK response that reports no
\* success, or a rejection
Failures == {Json(500, [success |-> FALSE]), Text(504), Json(200, [success |-> FALSE]), Down}

\* everything fetch settles with
Results ==
    Failures \cup
    {Answer(Sent(op, id), rm).result :
        op \in {"list", "post", "put", "delete"}, id \in TaskIds,
        rm \in [ids : SUBSET TaskIds, seq : 0..MaxTasks]}

\* what a call of taskApi settles with
Thrown(name, message) == [thrown |-> TRUE, name |-> name, message |-> message]
Returned(value) == [thrown |-> FALSE, value |-> value]

\* data.error of a parsed body is there and is not the empty string
HasError(value) == "error" \in DOMAIN value /\ value.error # ""

\* TaskApi.request: the rejection of fetch and the error of response.json()
\* are thrown again; the body is read before response.ok is tested
request(f) ==
    IF f.net = "down" THEN Thrown("TypeError", <<"Failed to fetch">>)
    ELSE IF ~f.body.json THEN Thrown("SyntaxError", <<"Unexpected token">>)
    ELSE IF ~f.ok
         THEN Thrown("Error",
                     IF HasError(f.body.value)
                     THEN <<f.body.value.error>>
                     ELSE <<"HTTP error! status: ", f.status>>)
         ELSE Returned(f.body.value)

\* response.success && response.data of a call that returned
Succeeded(out) == ~out.thrown /\ "success" \in DOMAIN out.value /\ out.value.success
WithData(out) == Succeeded(out) /\ "data" \in DOMAIN out.value

\* what the user types in a form
DateInput == <<"2", "0", "2", "4", "-", "1", "2", "-", "3", "1">>
TitleInputs == {<<>>, Blank, TitleA}
DateInputs == {<<>>, DateInput}

\* validateCreateTaskForm whose test of the title does not trim
validateCreateTaskForm_NoTrim(title, dueDate) ==
    (IF title = <<>> THEN <<"title">> ELSE <<>>) \o
    (IF dueDate = <<>> \/ trim(dueDate) = <<>> THEN <<"due-date">> ELSE <<>>)

\* TaskManager.validateCreateTaskForm: the fields in error
validateCreateTaskForm(title, dueDate) ==
    (IF title = <<>> \/ trim(title) = <<>> THEN <<"title">> ELSE <<>>) \o
    (IF dueDate = <<>> \/ trim(dueDate) = <<>> THEN <<"due-date">> ELSE <<>>)

\* TaskManager.validateEditTaskForm
validateEditTaskForm(title, dueDate) ==
    (IF title = <<>> \/ trim(title) = <<>> THEN <<"edit-title">> ELSE <<>>) \o
    (IF dueDate = <<>> \/ trim(dueDate) = <<>> THEN <<"edit-due-date">> ELSE <<>>)

\* TaskManager.showFormErrors: nothing is shown unless the create page is
\* there and not hidden
showFormErrors(m, v, errors) ==
    IF v.display["create"] \in {"absent", "none"} THEN m ELSE [m EXCEPT !.formErrors = TRUE]

\* TaskManager.showEditFormErrors
showEditFormErrors(m, v, errors) ==
    IF v.display["edit"] \in {"absent", "none"} THEN m ELSE [m EXCEPT !.editErrors = TRUE]

\* the start of loadTasks: showLoading(true), then the request
showLoading(m, show) == [m EXCEPT !.loading = show]

\* the rest of loadTasks that clears the indicator only after a success
loadTasksSettled_NoFinally(m, out) ==
    IF WithData(out) THEN showLoading([m EXCEPT !.tasks = out.value.data], FALSE) ELSE m

\* the rest of loadTasks when its request has settled: the list is replaced
\* after a success, and the finally block hides the indicator
loadTasksSettled(m, out) ==
    showLoading(IF WithData(out) THEN [m EXCEPT !.tasks = out.value.data] ELSE m, FALSE)

\* TaskManager.clearFormErrors and clearEditFormErrors
clearFormErrors(m) == [m EXCEPT !.formErrors = FALSE]
clearEditFormErrors(m) == [m EXCEPT !.editErrors = FALSE]

\* TaskManager.setButtonLoading
setButtonLoading(m, button, loading) ==
    IF button = "create-task-btn" THEN [m EXCEPT !.creating = loading]
    ELSE [m EXCEPT !.updating = loading]

\* no call in progress
NoRun == [kind |-> "none"]

\* a call of a handler that awaits a request: pc is "api" for the request
\* of the handler and "reload" for the request of the loadTasks it awaits
Run(kind, at, f, fromEdit) == [kind |-> kind, pc |-> at, fetch |-> f, fromEdit |-> fromEdit]

FreeRuns == {a \in Runs : runs[a] = NoRun}

\* the free call with the smallest number, and the next one
FirstFree == CHOOSE a \in FreeRuns : \A b \in FreeRuns : a <= b
SecondFree == CHOOSE a \in FreeRuns \ {FirstFree} : \A b \in FreeRuns \ {FirstFree} : a <= b

\* new TaskManager() in a document loaded at a path: the router, the
\* listeners of the document (the listeners of the forms wait for a timer)
\* and the first loadTasks
Constructed(document, path, rm) ==
    /\ view = Router(document, path)
    /\ mgr = [tasks |-> {}, currentEditingTask |-> 0, loading |-> TRUE,
              creating |-> FALSE, updating |-> FALSE, formErrors |-> FALSE,
              editErrors |-> FALSE, formListeners |-> FALSE]
    /\ runs = [a \in Runs |-> IF a = 1 THEN Run("load", "reload", Sent("list", 0), FALSE)
                              ELSE NoRun]
    /\ remote = rm
    /\ erased = {}
    /\ latest = [by |-> 1, done |-> FALSE]

\* the timer of setupEventListeners fires: setupFormEventListeners
Timer ==
    /\ ~mgr.formListeners
    /\ mgr' = [mgr EXCEPT !.formListeners = TRUE]
    /\ UNCHANGED <<rows, seq, now, router, server, view, runs, remote, erased, latest>>

\* the page the user sees
Shows(page) == view.display[page] \in {"", "block"}

\* the user follows a navigation link or the cancel button
Follow(path) ==
    /\ view' = navigateTo(Fresh(view), path)
    /\ UNCHANGED <<rows, seq, now, router, server, manager>>

\* the user clicks the refresh button: loadTasks
ClickRefresh ==
    /\ mgr.formListeners /\ Shows("home")
    /\ FreeRuns # {}
    /\ mgr' = showLoading(mgr, TRUE)
    /\ runs' = [runs EXCEPT ![FirstFree] = Run("load", "reload", Sent("list", 0), FALSE)]
    /\ latest' = [by |-> FirstFree, done |-> FALSE]
    /\ UNCHANGED <<rows, seq, now, router, server, view, remote, erased>>

\* the listeners a submit event on the task form reaches: the listener of
\* the form, once the timer has fired, and the listener of the document
SubmitListeners == IF mgr.formListeners THEN 2 ELSE 1

\* the task form is submitted: every listener runs handleCreateTask, which
\* shows the errors or sets the button loading and sends its request
SubmitEvent(title, dueDate) ==
    LET errors == validateCreateTaskForm(title, dueDate)
        first == FirstFree
    IN  /\ Shows("create")
        /\ Cardinality(FreeRuns) >= SubmitListeners
        /\ IF errors # <<>>
           THEN /\ mgr' = showFormErrors(clearFormErrors(mgr), view, errors)
                /\ UNCHANGED runs
           ELSE /\ mgr' = setButtonLoading(clearFormErrors(mgr),
                                           "create-task-btn", TRUE)
                /\ runs' = [a \in Runs |->
                              IF a = first \/ (SubmitListeners = 2 /\ a = SecondFree)
                              THEN Run("create", "api", Sent("post", 0), FALSE)
                              ELSE runs[a]]
        /\ UNCHANGED <<rows, seq, now, router, server, view, remote, erased, latest>>

\* the submit button of the task form is clicked: the click listener of the
\* document prevents the submission and shows the errors or calls
\* executeTaskCreation
ClickSubmit(title, dueDate) ==
    LET errors == validateCreateTaskForm(title, dueDate)
    IN  /\ Shows("create")
        /\ FreeRuns # {}
        /\ IF errors # <<>>
           THEN /\ mgr' = showFormErrors(clearFormErrors(mgr), view, errors)
                /\ UNCHANGED runs
           ELSE /\ mgr' = setButtonLoading(clearFormErrors(mgr),
                                           "create-task-btn", TRUE)
                /\ runs' = [runs EXCEPT ![FirstFree] =
                              Run("create", "api", Sent("post", 0), FALSE)]
        /\ UNCHANGED <<rows, seq, now, router, server, view, remote, erased, latest>>

\* the edit button of a task of the list is clicked: navigateToEditTask
ClickEdit(id) ==
    /\ Shows("home")
    /\ id \in mgr.tasks
    /\ mgr' = [mgr EXCEPT !.currentEditingTask = id]
    /\ view' = navigateTo(Fresh(view), EditPath(<<"1">>))
    /\ UNCHANGED <<rows, seq, now, router, server, runs, remote, erased, latest>>

\* the update button of the edit form is clicked: handleUpdateTask
ClickUpdate(title, dueDate) ==
    LET errors == validateEditTaskForm(title, dueDate)
    IN  /\ Shows("edit")
        /\ mgr.currentEditingTask # 0
        /\ FreeRuns # {}
        /\ IF errors # <<>>
           THEN /\ mgr' = showEditFormErrors(clearEditFormErrors(mgr), view, errors)
                /\ UNCHANGED runs
           ELSE /\ mgr' = setButtonLoading(clearEditFormErrors(mgr),
                                           "update-task-btn", TRUE)
                /\ runs' = [runs EXCEPT ![FirstFree] =
                              Run("update", "api", Sent("put", mgr.currentEditingTask), FALSE)]
        /\ UNCHANGED <<rows, seq, now, router, server, view, remote, erased, latest>>

\* the delete button of the edit page is clicked and the user confirms:
\* handleDeleteTask of the task being edited
ClickDelete ==
    /\ Shows("edit")
    /\ mgr.currentEditingTask # 0
    /\ FreeRuns # {}
    /\ runs' = [runs EXCEPT ![FirstFree] =
                  Run("delete", "api", Sent("delete", mgr.currentEditingTask), TRUE)]
    /\ UNCHANGED <<rows, seq, now, router, server, view, mgr, remote, erased, latest>>

\* the request of call a reaches the server, which answers it
Respond(a) ==
    /\ runs[a] # NoRun
    /\ runs[a].fetch.stage = "sent"
    /\ LET reply == Answer(runs[a].fetch, remote)
       IN  /\ runs' = [runs EXCEPT ![a].fetch =
                         [op |-> @.op, id |-> @.id, stage |-> "served",
                          result |-> reply.result]]
           /\ remote' = reply.remote
    /\ UNCHANGED <<rows, seq, now, router, server, view, mgr, erased, latest>>

\* what fetch can settle with for a request: the response of the server
\* once it has answered, or a failure on the way there or back
Arrivals(f) == (IF f.stage = "served" THEN {f.result} ELSE {}) \cup Failures

\* another client deletes a task
Elsewhere ==
    /\ \E id \in remote.ids : remote' = [remote EXCEPT !.ids = @ \ {id}]
    /\ UNCHANGED <<rows, seq, now, router, server, view, mgr, runs, erased, latest>>

\* the loadTasks call that was issued last, once it has settled
Latest(a, out) ==
    IF latest.by = a /\ ~latest.done
    THEN [by |-> a, done |-> TRUE, ok |-> WithData(out),
          data |-> IF WithData(out) THEN out.value.data ELSE {}]
    ELSE latest

\* the handler of call a goes on to await loadTasks
Reload(a, m) ==
    /\ mgr' = showLoading(m, TRUE)
    /\ runs' = [runs EXCEPT ![a] = Run(runs[a].kind, "reload", Sent("list", 0),
                                       runs[a].fromEdit)]
    /\ latest' = [by |-> a, done |-> FALSE]
    /\ UNCHANGED view

\* the handler of call a ends
Ends(a, m, v) ==
    /\ mgr' = m
    /\ view' = v
    /\ runs' = [runs EXCEPT ![a] = NoRun]

\* the request of call a settles with what fetch got and the handler runs
\* on to its next await or to its end
Settle(a, got) ==
    /\ runs[a] # NoRun
    /\ got \in Arrivals(runs[a].fetch)
    /\ LET r == runs[a]
           out == request(got)
       IN  /\ IF r.pc = "reload"
              THEN /\ latest' = Latest(a, out)
                   /\ erased' = erased
                   /\ IF r.kind = "create"
                      THEN Ends(a, setButtonLoading(loadTasksSettled(mgr, out),
                                                    "create-task-btn", FALSE),
                                navigateTo(Fresh(view), Root))
                      ELSE IF r.kind = "update"
                      THEN Ends(a, setButtonLoading(loadTasksSettled(mgr, out),
                                                    "update-task-btn", FALSE),
                                navigateTo(Fresh(view), Root))
                      ELSE Ends(a, loadTasksSettled(mgr, out), view)
              ELSE IF r.kind = "create"
              THEN /\ erased' = erased
                   /\ IF WithData(out)
                      THEN Reload(a, clearFormErrors(mgr))
                      ELSE /\ Ends(a, setButtonLoading(mgr, "create-task-btn", FALSE), view)
                           /\ UNCHANGED latest
              ELSE IF r.kind = "update"
              THEN /\ erased' = erased
                   /\ IF WithData(out)
                      THEN Reload(a, mgr)
                      ELSE /\ Ends(a, setButtonLoading(mgr, "update-task-btn", FALSE), view)
                           /\ UNCHANGED latest
              ELSE IF Succeeded(out)
                   THEN /\ Reload(a, mgr)
                        /\ erased' = IF r.fromEdit THEN erased \cup {r.fetch.id} ELSE erased
                   ELSE /\ Ends(a, mgr, view)
                        /\ UNCHANGED <<latest, erased>>
    /\ UNCHANGED <<rows, seq, now, router, server, remote>>

-----------------------------------------------------------------------------
(* The states the server starts in and its steps *)

\* the server before its first request
ServerAtRest ==
    /\ rows = {}
    /\ seq = 0
    /\ now = 0
    /\ pc = "idle"
    /\ req = NoReq
    /\ res = NoRes
    /\ dbCalls = <<>>
    /\ issued = {}
    /\ deleted = {}
    /\ flight = [k \in Slots |-> Free]
    /\ proc = "running"
    /\ caught = {}

Init ==
    /\ ServerAtRest
    /\ Constructed(TestDocument, Root, NoTasks)

\* the router constructed in any document at any path
InitRouter ==
    /\ ServerAtRest
    /\ \E d \in Documents, path \in Paths : Constructed(d, path, NoTasks)

NextRouter ==
    \/ \E path \in Paths : NavigateTo(path)
    \/ \E delta \in {-1, 1} : Popstate(delta)

SpecRouter == InitRouter /\ [][NextRouter]_vars

\* the TaskManager constructed in the document of the tests
InitClient ==
    /\ ServerAtRest
    /\ \E rm \in Remotes : Constructed(TestDocument, Root, rm)

NextClient ==
    \/ Timer
    \/ \E path \in {Root, CreatePath} : Follow(path)
    \/ ClickRefresh
    \/ \E title \in TitleInputs, dueDate \in DateInputs : SubmitEvent(title, dueDate)
    \/ \E title \in TitleInputs, dueDate \in DateInputs : ClickSubmit(title, dueDate)
    \/ \E id \in TaskIds : ClickEdit(id)
    \/ \E title \in TitleInputs, dueDate \in DateInputs : ClickUpdate(title, dueDate)
    \/ ClickDelete
    \/ \E a \in Runs : Respond(a)
    \/ \E a \in Runs, got \in Results : Settle(a, got)
    \/ Elsewhere

SpecClient == InitClient /\ [][NextClient]_vars

\* the TaskManager constructed at the home page, with one task stored
InitBusy ==
    /\ ServerAtRest
    /\ Constructed(TestDocument, Root, [ids |-> {1}, seq |-> 1])

\* the steps of a user who refreshes the list, creates tasks and updates
\* the task being edited
NextBusy ==
    \/ Timer
    \/ Follow(CreatePath)
    \/ ClickRefresh
    \/ \E title \in TitleInputs, dueDate \in DateInputs : ClickSubmit(title, dueDate)
    \/ \E id \in TaskIds : ClickEdit(id)
    \/ \E title \in TitleInputs, dueDate \in DateInputs : ClickUpdate(title, dueDate)
    \/ \E a \in Runs : Respond(a)
    \/ \E a \in Runs, got \in Results : Settle(a, got)

\* the promise of every fetch settles, with a response or a rejection, and
\* the handler that awaits it then runs
SpecBusy ==
    /\ InitBusy
    /\ [][NextBusy]_vars
    /\ \A a \in Runs : WF_vars(\E got \in Results : Settle(a, got))

\* the router runs the handler of the request in flight
Handle ==
    \/ HandleGetAll
    \/ HandleGetById
    \/ HandlePost
    \/ HandlePut
    \/ HandlePatch
    \/ HandleDelete

Next ==
    \/ \E r \in Requests : Receive(r)
    \/ Handle
    \/ Deliver
    \/ Tick

Spec == Init /\ [][Next]_vars

NextFields ==
    \/ \E r \in FieldRequests : Receive(r)
    \/ Handle
    \/ Deliver
    \/ Tick

SpecFields == Init /\ [][NextFields]_vars

----------------------------------------------------------------------------
(* The server under concurrent requests.  Node runs the middleware and     *)
(* the handler of a request up to its Database call without interruption,  *)
(* the sqlite3 driver runs each statement on the one connection, and the   *)
(* callback of the statement writes the response.                          *)

Call(method, id, arg) == [method |-> method, id |-> id, arg |-> arg]

Rejected(response) == [reject |-> TRUE, res |-> response]
Calls(call) == [reject |-> FALSE, call |-> call]

\* the middleware and the handler of request r up to the Database call:
\* the response written without a call, or the call made
Dispatch(r) ==
    CASE r.op = "list" -> Calls(Call("getAllTasks", Null, Null))
      [] r.op = "get" ->
            IF validateId(r.id) # <<>>
            THEN Rejected(ValidationFailed(validateId(r.id)))
            ELSE Calls(Call("getTaskById", Str(r.id), Null))
      [] r.op = "post" ->
            LET v == validateTask(r.body)
            IN  IF v.errors # <<>>
                THEN Rejected(ValidationFailed(v.errors))
                ELSE Calls(Call("createTask", Null,
                                [k \in DOMAIN v.body \cap AllowedFields |-> v.body[k]]))
      [] r.op = "put" ->
            LET v == validateTaskUpdate(r.body)
                errors == validateId(r.id) \o v.errors
                updates == [k \in {f \in AllowedFields : Present(v.body, f)} |-> v.body[k]]
            IN  IF errors # <<>>
                THEN Rejected(ValidationFailed(errors))
                ELSE IF DOMAIN updates = {}
                THEN Rejected(Response(400, [success |-> FALSE,
                                             error |-> "No valid fields provided for update"]))
                ELSE Calls(Call("updateTask", Str(r.id), updates))
      [] r.op = "patch" ->
            LET status == Field(r.body, "status")
            IN  IF validateId(r.id) # <<>>
                THEN Rejected(ValidationFailed(validateId(r.id)))
                ELSE IF Falsy(status) \/ ~(IsStr(status) /\ status.v \in StatusValues)
                THEN Rejected(Response(400,
                        [success |-> FALSE,
                         error |-> "Valid status is required (pending, in_progress, completed, cancelled)"]))
                ELSE Calls(Call("updateTaskStatus", Str(r.id), status))
      [] r.op = "delete" ->
            IF validateId(r.id) # <<>>
            THEN Rejected(ValidationFailed(validateId(r.id)))
            ELSE Calls(Call("deleteTask", Str(r.id), Null))

FieldOrder == <<"title", "description", "status", "due_date">>

\* StatementsOf with updateTask running one UPDATE for each field
StatementsOf_OnePerField(call) ==
    IF call.method = "updateTask"
    THEN LET fields == SelectSeq(FieldOrder, LAMBDA f : f \in DOMAIN call.arg)
         IN  [i \in 1..Len(fields) |->
                 Call("updateTask", call.id, Only(fields[i], call.arg[fields[i]]))]
    ELSE <<call>>

\* the SQL statements a Database method runs: each method runs one
StatementsOf(call) == <<call>>

\* what a statement may settle with, and the table after it
Outcomes(stmt, rs, sq, t) ==
    CASE stmt.method = "getAllTasks" ->
            {[ok |-> TRUE, value |-> tasks, rows |-> rs, seq |-> sq] : tasks \in getAllTasks(rs)}
      [] stmt.method = "getTaskById" ->
            {[ok |-> TRUE, value |-> getTaskById(rs, stmt.id), rows |-> rs, seq |-> sq]}
      [] stmt.method = "createTask" -> {createTask(rs, sq, t, stmt.arg)}
      [] stmt.method = "updateTask" ->
            {[seq |-> sq] @@ updateTask(rs, t, stmt.id, stmt.arg)}
      [] stmt.method = "updateTaskStatus" ->
            {[seq |-> sq] @@ updateTaskStatus(rs, t, stmt.id, stmt.arg)}
      [] stmt.method = "deleteTask" -> {[seq |-> sq] @@ deleteTask(rs, stmt.id)}

\* the error of a statement run on a connection that is closing or closed
MisuseError == "SQLITE_MISUSE: Database is closed"

\* Reply whose catch blocks answer every error as not-found
Reply_ErrorsAsNotFound(r, o) ==
    CASE r.op = "list" ->
            IF o.ok
            THEN Response(200, [success |-> TRUE, data |-> o.value, count |-> Len(o.value)])
            ELSE NotFound
      [] r.op = "get" ->
            IF ~o.ok THEN NotFound
            ELSE IF o.value = Undefined THEN NotFound
            ELSE Response(200, [success |-> TRUE, data |-> o.value])
      [] r.op = "post" ->
            IF o.ok
            THEN Response(201, [success |-> TRUE, data |-> o.value,
                                message |-> "Task created successfully"])
            ELSE NotFound
      [] r.op = "put" ->
            IF o.ok
            THEN Response(200, [success |-> TRUE, data |-> o.value,
                                message |-> "Task updated successfully"])
            ELSE NotFound
      [] r.op = "patch" ->
            IF o.ok
            THEN Response(200, [success |-> TRUE, data |-> o.value,
                                message |-> "Task status updated successfully"])
            ELSE NotFound
      [] r.op = "delete" ->
            IF o.ok
            THEN Response(200, [success |-> TRUE, message |-> "Task deleted successfully"])
            ELSE NotFound

\* the response the handler of request r writes when its call has settled
Reply(r, o) ==
    CASE r.op = "list" ->
            IF o.ok
            THEN Response(200, [success |-> TRUE, data |-> o.value, count |-> Len(o.value)])
            ELSE Failed("Failed to fetch tasks", o.error)
      [] r.op = "get" ->
            IF ~o.ok THEN Failed("Failed to fetch task", o.error)
            ELSE IF o.value = Undefined THEN NotFound
            ELSE Response(200, [success |-> TRUE, data |-> o.value])
      [] r.op = "post" ->
            IF o.ok
            THEN Response(201, [success |-> TRUE, data |-> o.value,
                                message |-> "Task created successfully"])
            ELSE Failed("Failed to create task", o.error)
      [] r.op = "put" ->
            IF o.ok
            THEN Response(200, [success |-> TRUE, data |-> o.value,
                                message |-> "Task updated successfully"])
            ELSE IF o.error = NotFoundError THEN NotFound
            ELSE Failed("Failed to update task", o.error)
      [] r.op = "patch" ->
            IF o.ok
            THEN Response(200, [success |-> TRUE, data |-> o.value,
                                message |-> "Task status updated successfully"])
            ELSE IF o.error = NotFoundError THEN NotFound
            ELSE Failed("Failed to update task status", o.error)
      [] r.op = "delete" ->
            IF o.ok
            THEN Response(200, [success |-> TRUE, message |-> "Task deleted successfully"])
            ELSE IF o.error = NotFoundError THEN NotFound
            ELSE Failed("Failed to delete task", o.error)

\* the requests in flight that are creates
CreatesInFlight ==
    {k \in Slots : flight[k].stage \in {"received", "queued"} /\ flight[k].req.op = "post"}

\* a request arrives on connection k; the server listens until the process
\* exits
Accept(k, r) ==
    /\ proc # "exited"
    /\ flight[k].stage \in {"free", "done"}
    /\ r.op = "post" => seq + Cardinality(CreatesInFlight) < MaxId
    /\ flight' = [flight EXCEPT ![k] = [stage |-> "received", req |-> r]]
    /\ caught' = caught \ {k}
    /\ UNCHANGED <<rows, seq, now, router, proc, client>>

\* the connections other than k with a request in flight
Beside(k) == {j \in Slots \ {k} : flight[j].stage \in {"received", "queued"}}

\* the request settled on a connection: its response, whether its call
\* found the connection closed and, as history, the connections that had
\* a request in flight when it settled
Done(r, response, misuse, beside) ==
    [stage |-> "done", req |-> r, res |-> response, misuse |-> misuse, beside |-> beside]

\* the middleware and the handler of the request on connection k run up to
\* the Database call.  A call made once close() was called finds no open
\* connection and settles with the driver's error.
Route(k) ==
    /\ proc # "exited"
    /\ flight[k].stage = "received"
    /\ LET r == flight[k].req
           d == Dispatch(r)
       IN  flight' = [flight EXCEPT ![k] =
              IF d.reject THEN Done(r, d.res, FALSE, Beside(k))
              ELSE IF proc = "running"
              THEN [stage |-> "queued", req |-> r, stmts |-> StatementsOf(d.call)]
              ELSE Done(r, Reply(r, [ok |-> FALSE, error |-> MisuseError]), TRUE, Beside(k))]
    /\ UNCHANGED <<rows, seq, now, router, proc, caught, client>>

\* the next statement of the call on connection k runs; the callback of
\* the last one writes the response
Exec(k) ==
    /\ proc \in {"running", "closing"}
    /\ flight[k].stage = "queued"
    /\ LET r == flight[k].req
           stmts == flight[k].stmts
       IN  \E o \in Outcomes(Head(stmts), rows, seq, now) :
              /\ rows' = o.rows
              /\ seq' = o.seq
              /\ IF Len(stmts) > 1
                 THEN /\ flight' = [flight EXCEPT ![k].stmts = Tail(stmts)]
                      /\ UNCHANGED <<issued, deleted>>
                 ELSE /\ flight' = [flight EXCEPT ![k] = Done(r, Reply(r, o), FALSE, Beside(k))]
                      /\ issued' = IF r.op = "post" /\ o.ok
                                   THEN issued \cup {o.value.id.v} ELSE issued
                      /\ deleted' = IF r.op = "delete" /\ o.ok
                                    THEN deleted \cup {IdOf(r.id)} ELSE deleted
    /\ UNCHANGED <<now, pc, req, res, dbCalls, proc, caught, client>>

\* SIGINT or SIGTERM: the handler calls db.close()
Signal ==
    /\ proc = "running"
    /\ proc' = "closing"
    /\ caught' = {k \in Slots : flight[k].stage \in {"received", "queued"}}
    /\ UNCHANGED <<rows, seq, now, router, flight, client>>

\* Database.close: the driver closes the connection once the statements
\* handed to it have run, and the promise resolves
Close ==
    /\ proc = "closing"
    /\ \A k \in Slots : flight[k].stage # "queued"
    /\ proc' = "closed"
    /\ UNCHANGED <<rows, seq, now, router, flight, caught, client>>

\* process.exit(0)
Exit ==
    /\ proc = "closed"
    /\ proc' = "exited"
    /\ UNCHANGED <<rows, seq, now, router, flight, caught, client>>

\* the requests of the concurrent clients: creates, reads, replaces of
\* task 1 with one field and with every field, a status update of task 1,
\* deletes of both tasks
FullB ==
    [title |-> Str(TitleB), description |-> Str(DescD),
     status |-> Str(Completed), due_date |-> Str(Due23Plus5)]

ServerRequests ==
    {[op |-> "list"], [op |-> "get", id |-> <<"1">>], [op |-> "post", body |-> BaseBody],
     [op |-> "patch", id |-> <<"1">>, body |-> Only("status", Str(Completed))]}
    \cup {[op |-> "delete", id |-> i] : i \in FieldIds}
    \cup {[op |-> "put", id |-> <<"1">>, body |-> b] :
             b \in {Only("title", Str(TitleB)), Only("status", Str(InProgress)), FullB}}

NextServer ==
    \/ \E k \in Slots, r \in ServerRequests : Accept(k, r)
    \/ \E k \in Slots : Route(k)
    \/ \E k \in Slots : Exec(k)
    \/ Tick

SpecServer == Init /\ [][NextServer]_vars

\* the requests of the clients of a server that is shut down: requests
\* with a body, which express.json reads over several turns of the event
\* loop before the handler runs
ShutdownRequests ==
    {[op |-> "post", body |-> BaseBody],
     [op |-> "post", body |-> Without(BaseBody, "title")],
     [op |-> "put", id |-> <<"1">>, body |-> Only("title", Str(TitleB))],
     [op |-> "put", id |-> <<"1">>, body |-> EmptyBody],
     [op |-> "patch", id |-> <<"1">>, body |-> Only("status", Str(Completed))]}

NextShutdown ==
    \/ \E k \in Slots, r \in ShutdownRequests : Accept(k, r)
    \/ \E k \in Slots : Route(k)
    \/ \E k \in Slots : Exec(k)
    \/ Tick
    \/ Signal
    \/ Close
    \/ Exit

SpecShutdown == Init /\ [][NextShutdown]_vars

\* the statement of connection k fails in the store: the driver calls back
\* with the error, the promise rejects and the catch block of the handler
\* writes the response
Fault(k) ==
    /\ proc = "running"
    /\ flight[k].stage = "queued"
    /\ flight' = [flight EXCEPT ![k] =
          Done(flight[k].req, Reply(flight[k].req, [ok |-> FALSE, error |-> StorageError]),
               FALSE, Beside(k))]
    /\ UNCHANGED <<rows, seq, now, router, proc, caught, client>>

\* the requests of the clients of a server whose store may fail: one of
\* each operation, and a replace of a task that is never stored
FaultRequests ==
    {[op |-> "list"], [op |-> "get", id |-> <<"1">>], [op |-> "post", body |-> BaseBody],
     [op |-> "put", id |-> <<"1">>, body |-> Only("title", Str(TitleB))],
     [op |-> "put", id |-> <<"9">>, body |-> Only("title", Str(TitleB))],
     [op |-> "patch", id |-> <<"1">>, body |-> Only("status", Str(Completed))],
     [op |-> "delete", id |-> <<"1">>]}

NextFaults ==
    \/ \E k \in Slots, r \in FaultRequests : Accept(k, r)
    \/ \E k \in Slots : Route(k)
    \/ \E k \in Slots : Exec(k)
    \/ \E k \in Slots : Fault(k)
    \/ Tick

SpecFaults == Init /\ [][NextFaults]_vars

\* the outcomes of statements run one after the other
RECURSIVE RunAll(_, _, _, _)
RunAll(stmts, rs, sq, t) ==
    IF Len(stmts) = 1 THEN Outcomes(Head(stmts), rs, sq, t)
    ELSE UNION {RunAll(Tail(stmts), o.rows, o.seq, t) :
                  o \in Outcomes(Head(stmts), rs, sq, t)}

\* request r served from beginning to end on table rs at time t with no
\* other request in flight: the responses it may get, each with the table
\* it leaves
Serve(r, rs, sq, t) ==
    LET d == Dispatch(r)
    IN  IF d.reject THEN {[res |-> d.res, rows |-> rs, seq |-> sq]}
        ELSE {[res |-> Reply(r, o), rows |-> o.rows, seq |-> o.seq] :
                 o \in RunAll(StatementsOf(d.call), rs, sq, t)}

----------------------------------------------------------------------------
(* What the claims speak of *)

\* the step in which the router handles a request of kind op
Handles(op) == pc = "handling" /\ pc' = "done" /\ req.op = op

\* the request in flight of kind op has been answered
Answered(op) == pc = "done" /\ req.op = op

\* the stored task a path id addresses: a set with at most one row
Addressed(rs, id) == {r \in rs : isIntMin1(id) /\ r.id = ToInt(IF Head(id) = "+" THEN Tail(id) ELSE id)}

\* the moment a stored due_date names, in seconds since the year 2000 with
\* every month counted as 31 days: a year alone is its first of January,
\* a date alone is midnight UTC, an offset is subtracted
Instant(x) ==
    LET s == x.v
        year == IF IsNum(x) THEN x.v ELSE 1000 * Digit(s[1]) + 100 * Digit(s[2]) + Num2(s, 3)
        hasDate == IsStr(x) /\ Len(s) >= 10
        hasTime == IsStr(x) /\ Len(s) >= 19
        days == ((year - 2000) * 12 + (IF hasDate THEN Num2(s, 6) ELSE 1)) * 31
                  + (IF hasDate THEN Num2(s, 9) ELSE 1)
        secs == IF hasTime THEN (Num2(s, 12) * 60 + Num2(s, 15)) * 60 + Num2(s, 18) ELSE 0
        offset == IF IsStr(x) /\ Len(s) = 25
                  THEN (IF s[20] = "-" THEN 0 - 1 ELSE 1) * (Num2(s, 21) * 60 + Num2(s, 24)) * 60
                  ELSE 0
    IN  days * 86400 + secs - offset

\* C1: list-all returns every stored task exactly once, each task's due
\* date being a moment not later than that of the task after it
C1_ListAscendingByDueInstant ==
    Answered("list") =>
        /\ res.status = 200
        /\ Len(res.body.data) = Cardinality(rows)
        /\ {res.body.data[i] : i \in 1..Len(res.body.data)} = {RowObject(r) : r \in rows}
        /\ \A i, j \in 1..Len(res.body.data) :
              i < j => Instant(res.body.data[i].due_date) <= Instant(res.body.data[j].due_date)

\* the value the router and the table make of a value x sent for field f:
\* a title loses the white space around it, a due_date written with digits
\* alone becomes that number, anything else is kept
AsStored(f, x) ==
    IF f = "title" /\ IsStr(x) THEN Str(trim(x.v))
    ELSE IF f = "due_date" /\ IsStr(x) /\ x.v # <<>> /\ AllDigits(x.v) THEN Num(ToInt(x.v))
    ELSE x

Fetched == getTaskById(rows, res.body.data.id)

\* the description a create payload carries: absent when left out
SentDescription == IF "description" \in DOMAIN req.body THEN req.body.description ELSE Null

C9_PatchChangesOnlyStatus ==
    [][Handles("patch") /\ res'.status = 200 =>
          \E old \in Addressed(rows, req.id) :
             rows' = (rows \ {old})
                       \cup {[old EXCEPT !.status = req.body.status, !.updated_at = now]}]_vars

\* a PATCH whose body carries a title and a due_date besides the status
\* has succeeded on one of two stored tasks and left its title alone
C9_Witness ==
    /\ Answered("patch") /\ res.status = 200
    /\ {"title", "due_date"} \subseteq DOMAIN req.body
    /\ Cardinality(rows) = 2
    /\ \E r \in Addressed(rows, req.id) :
          /\ r.status = req.body.status
          /\ r.title # req.body.title
          /\ r.updated_at > r.created_at

\* the constraint of each field, on a value sent for it
FieldOk(f, x) ==
    CASE f = "title" -> IsStr(x) /\ Len(trim(x.v)) \in 1..MaxTitleLen
      [] f = "description" -> x = Null \/ (IsStr(x) /\ Len(x.v) <= MaxDescLen)
      [] f = "status" -> IsStr(x) /\ x.v \in StatusValues
      [] f = "due_date" -> IsStr(x) /\ isISO8601(x.v)

\* the recognized fields of a body whose values violate their constraint
BadFields(body) == {f \in DOMAIN body \cap AllowedFields : ~FieldOk(f, body[f])}

HasId(r) == r.op \in {"get", "put", "patch", "delete"}

\* a payload that the operation accepts when the id is that of a task
ValidPayload(r) ==
    CASE r.op = "put" -> BadFields(r.body) = {} /\ DOMAIN r.body \cap AllowedFields # {}
      [] r.op = "patch" -> "status" \in DOMAIN r.body /\ FieldOk("status", r.body.status)
      [] OTHER -> TRUE

\* C3: get-by-id, replace, update-status and delete with a well-formed
\* positive id of no stored task and a valid payload answer 404 "Task not
\* found" and leave the table as it was
C3_UnknownIdIsNotFound ==
    [][pc = "handling" /\ pc' = "done" /\ HasId(req) /\ isIntMin1(req.id)
         /\ Addressed(rows, req.id) = {} /\ ValidPayload(req)
       => res' = NotFound /\ rows' = rows /\ seq' = seq]_vars

\* a status update with a valid status was answered not-found while
\* another task is stored
C3_Witness ==
    /\ Answered("patch") /\ res = NotFound
    /\ ValidPayload(req)
    /\ rows # {} /\ Addressed(rows, req.id) = {}

\* a request with bad input: a malformed id, a recognized field violating
\* its constraint, a create without a required field, a status update
\* without a valid status
BadInput(r) ==
    \/ HasId(r) /\ ~isIntMin1(r.id)
    \/ r.op \in {"post", "put"} /\ BadFields(r.body) # {}
    \/ r.op = "post" /\ ~({"title", "status", "due_date"} \subseteq DOMAIN r.body)
    \/ r.op = "patch" /\ ~ValidPayload(r)

\* C4: a request with bad input is answered 400, and a request answered
\* 400 has called no Database method and left the table as it was
C4_RejectedBeforeStore ==
    [][pc = "handling" /\ pc' = "done" =>
          /\ BadInput(req) => res'.status = 400
          /\ res'.status = 400 => dbCalls' = <<>> /\ rows' = rows /\ seq' = seq]_vars

\* a PUT on a stored task with one valid and one invalid field was rejected
C4_Witness ==
    /\ Answered("put") /\ res.status = 400
    /\ Addressed(rows, req.id) # {}
    /\ BadFields(req.body) # {} /\ BadFields(req.body) # DOMAIN req.body
    /\ dbCalls = <<>>

\* a request that tries to store a status outside the four values
SetsBadStatus(r) ==
    /\ r.op \in {"post", "put", "patch"}
    /\ "status" \in DOMAIN r.body
    /\ ~FieldOk("status", r.body.status)

\* C5: every stored status is one of the four values, and a request that
\* tries to set another one is answered 400 without a call to the Database
C5_StatusAlwaysEnumerated ==
    /\ \A r \in rows : IsStr(r.status) /\ r.status.v \in StatusValues
    /\ pc = "done" /\ SetsBadStatus(req) => res.status = 400 /\ dbCalls = <<>>

\* a status update to an unknown status on a stored task was rejected
C5_Witness ==
    /\ Answered("patch") /\ res.status = 400
    /\ SetsBadStatus(req)
    /\ Addressed(rows, req.id) # {}

NoFieldsResponse ==
    Response(400, [success |-> FALSE, error |-> "No valid fields provided for update"])

\* C7: a PUT with a well-formed positive id and none of title, description,
\* status, due_date in its payload is answered with the "no fields" 400,
\* calls no Database method and changes no task, whether or not the id is
\* that of a task
C7_NoFieldsIsDistinct ==
    [][Handles("put") /\ isIntMin1(req.id) /\ DOMAIN req.body \cap AllowedFields = {}
       => res' = NoFieldsResponse /\ dbCalls' = <<>> /\ rows' = rows]_vars

\* a PUT carrying only an unknown key was rejected on a stored task
C7_Witness ==
    /\ Answered("put") /\ res = NoFieldsResponse
    /\ DOMAIN req.body = {"id"}
    /\ Addressed(rows, req.id) # {}

\* C8: every response has one of the four envelope shapes
C8_FourEnvelopeShapes ==
    pc = "done" =>
        LET b == res.body
            keys == DOMAIN b
        IN  \/ /\ b.success
               /\ "data" \in keys
               /\ keys \subseteq {"success", "data", "message", "count"}
            \/ /\ ~b.success
               /\ keys = {"success", "error", "details"}
               /\ b.error = "Validation failed"
            \/ /\ ~b.success
               /\ keys = {"success", "error"}
               /\ b.error = "Task not found"
            \/ /\ ~b.success
               /\ keys = {"success", "error", "message"}

\* C10: a successful create returns a positive id that no earlier create
\* returned, and no two stored tasks share an id
C10_IdsNeverReused ==
    [][/\ Handles("post") /\ res'.status = 201 =>
             res'.body.data.id.v > 0 /\ res'.body.data.id.v \notin issued
       /\ \A r1, r2 \in rows' : r1.id = r2.id => r1 = r2]_vars

\* a create has succeeded after the task of the first create was deleted
C10_Witness ==
    /\ Answered("post") /\ res.status = 201
    /\ issued = {1, 2}
    /\ {r.id : r \in rows} = {2}

\* C11: every stored task has updated_at >= created_at, and the task an
\* accepted create stores has created_at = updated_at
C11_UpdatedNotBeforeCreated ==
    [][/\ \A r \in rows' : r.updated_at >= r.created_at
       /\ Handles("post") /\ res'.status = 201 =>
             \E r \in rows' \ rows :
                /\ r.id = res'.body.data.id.v
                /\ r.created_at = r.updated_at
                /\ r.created_at = now]_vars

\* a create was accepted beside a task that was updated after its creation
C11_Witness ==
    /\ Answered("post") /\ res.status = 201
    /\ \E r \in rows : r.id = res.body.data.id.v /\ r.created_at = r.updated_at
    /\ \E r \in rows : r.updated_at > r.created_at

\* the requests that mutate a stored task
Mutates(r) == r.op \in {"put", "patch"}

\* C12: a successful replace or status update sets updated_at of its task
\* to the time of the request, which is not before the value it had; a
\* request that is not answered with success changes no updated_at
C12_UpdatedAtRefreshed ==
    [][pc = "handling" /\ pc' = "done" =>
          /\ Mutates(req) /\ res'.status = 200 =>
                \E old \in Addressed(rows, req.id), new \in Addressed(rows', req.id) :
                   new.updated_at = now /\ new.updated_at >= old.updated_at
          /\ res'.status \notin {200, 201} =>
                \A old \in rows : \E new \in rows' :
                   new.id = old.id /\ new.updated_at = old.updated_at]_vars

\* a replace has succeeded a second after the creation of its task
C12_Witness ==
    /\ Answered("put") /\ res.status = 200
    /\ \E r \in Addressed(rows, req.id) : r.updated_at = now /\ r.updated_at > r.created_at

\* the id and created_at of every task of a table
Identity(rs) == {<<r.id, r.created_at>> : r \in rs}

\* C13: a replace or a status update, whatever its payload and its outcome,
\* leaves the id and created_at of every task as they were, and no step
\* changes the created_at of a task that stays
C13_IdAndCreatedAtImmutable ==
    [][/\ pc = "handling" /\ pc' = "done" /\ Mutates(req) => Identity(rows') = Identity(rows)
       /\ \A old \in rows, new \in rows' :
             new.id = old.id => new.created_at = old.created_at]_vars

\* a replace whose payload carries id and created_at keys has succeeded a
\* second after the creation of its task
C13_Witness ==
    /\ Answered("put") /\ res.status = 200
    /\ {"id", "created_at"} \subseteq DOMAIN req.body
    /\ \E r \in Addressed(rows, req.id) :
          /\ Num(r.id) # req.body.id
          /\ Num(r.created_at) # req.body.created_at
          /\ r.updated_at > r.created_at

InFlight(k) == flight[k].stage \in {"received", "queued"}

\* the step in which the request on connection k is settled
Completes(k) == InFlight(k) /\ flight'[k].stage = "done"

\* connection k holds a settled request of kind op answered with status
Settled(k, op, status) ==
    flight[k].stage = "done" /\ flight[k].req.op = op /\ flight[k].res.status = status

\* the task old after the whole change of the replace or status update r
\* made at time t
Applied(old, r, t) ==
    IF r.op = "put"
    THEN [k \in DOMAIN old |->
            IF k \in DOMAIN r.body \cap AllowedFields THEN AsStored(k, r.body[k])
            ELSE IF k = "updated_at" THEN t
            ELSE old[k]]
    ELSE [old EXCEPT !.status = r.body.status, !.updated_at = t]

\* C15: whenever a stored task changes, it changes by the whole change of
\* one replace or status update in flight on its id, so that the table
\* never holds a task with some of a request's changes; a get-by-id and a
\* list-all return tasks as the table holds them; and a replace or status
\* update that is not answered with success leaves the table as it was
C15_MutationsAtomic ==
    [][/\ \A old \in rows, new \in rows' :
             new.id = old.id /\ new # old =>
                \E k \in Slots :
                   /\ flight[k].stage = "queued" /\ Mutates(flight[k].req)
                   /\ old \in Addressed(rows, flight[k].req.id)
                   /\ new = Applied(old, flight[k].req, now)
       /\ \A k \in Slots : Completes(k) /\ flight'[k].res.status = 200 =>
             /\ flight[k].req.op = "get" =>
                   flight'[k].res.body.data \in {RowObject(r) : r \in rows}
             /\ flight[k].req.op = "list" =>
                   \A i \in 1..Len(flight'[k].res.body.data) :
                      flight'[k].res.body.data[i] \in {RowObject(r) : r \in rows}
       /\ \A k \in Slots :
             Completes(k) /\ Mutates(flight[k].req) /\ flight'[k].res.status # 200 =>
                rows' = rows]_vars

\* a get-by-id of task 1 was answered while a replace of every field of
\* task 1 was in flight, and returned the task with none of its changes
C15_Witness ==
    \E k \in Slots, j \in Slots :
       /\ Settled(k, "get", 200) /\ j \in flight[k].beside
       /\ flight[j].stage # "free" /\ flight[j].req.op = "put"
       /\ flight[j].req.id = flight[k].req.id
       /\ DOMAIN flight[j].req.body = AllowedFields
       /\ \A f \in {"title", "status", "due_date"} :
             flight[k].res.body.data[f] # flight[j].req.body[f]

C17_DifferentIdsDoNotInterfere ==
    [][\A k \in Slots :
          Completes(k) /\ HasId(flight[k].req) /\ isIntMin1(flight[k].req.id) =>
             LET id == flight[k].req.id
                 mine == Addressed(rows, id)
             IN  /\ \E x \in Serve(flight[k].req, mine, seq, now) :
                       x.res = flight'[k].res /\ x.rows = Addressed(rows', id)
                 /\ rows' \ Addressed(rows', id) = rows \ mine]_vars

\* a replace of task 1 and a delete of task 2 were in flight together,
\* both succeeded, and task 1 is stored with the replaced title
C17_Witness ==
    \E k \in Slots, j \in Slots :
       /\ Settled(k, "put", 200) /\ Settled(j, "delete", 200)
       /\ j \in flight[k].beside
       /\ flight[k].req.id # flight[j].req.id
       /\ "title" \in DOMAIN flight[k].req.body
       /\ \E r \in Addressed(rows, flight[k].req.id) : r.title = flight[k].req.body.title

\* C18: once the connection is closed every request that was in flight
\* when the signal arrived is settled, and none of them made its Database
\* call on a connection that close() had been called on
C18_ShutdownAfterInFlight ==
    \A k \in caught :
       /\ proc \in {"closed", "exited"} => flight[k].stage = "done"
       /\ flight[k].stage = "done" => ~flight[k].misuse

\* the days of a month of the Gregorian calendar
DaysIn(month, year) ==
    CASE month \in {4, 6, 9, 11} -> 30
      [] month = 2 ->
            IF year % 4 = 0 /\ (year % 100 # 0 \/ year % 400 = 0) THEN 29 ELSE 28
      [] OTHER -> 31

\* an ISO-8601 date and time of the calendar: a date that exists, a time
\* of the day, and Z or an offset
CalendarDateTime(s) ==
    /\ \/ Matches(s, PatUtc)
       \/ (Matches(s, PatPlus) \/ Matches(s, PatMinus)) /\ ZoneInRange(s)
    /\ DateInRange(s) /\ TimeInRange(s)
    /\ Num2(s, 9) <= DaysIn(Num2(s, 6), ToInt(SubSeq(s, 1, 4)))

\* the fields of a create payload that violate the rules of create; a
\* null description counts as an absent one
Offending(body) ==
    {f \in {"title", "status", "due_date"} : f \notin DOMAIN body}
    \cup {f \in DOMAIN body \cap {"title", "description", "status"} : ~FieldOk(f, body[f])}
    \cup {f \in DOMAIN body \cap {"due_date"} :
             ~(IsStr(body[f]) /\ CalendarDateTime(body[f].v))}

\* C19: a create is accepted if and only if no field of its payload
\* violates the rules of create (title of 1 to 255 characters after
\* trimming, status one of the four values, due_date a valid ISO-8601 date
\* and time, description absent or of at most 1000 characters), and a
\* rejected one is answered with the validation failure whose details name
\* the offending fields
C19_CreateAcceptsIff ==
    Answered("post") =>
        IF Offending(req.body) = {}
        THEN res.status = 201
        ELSE /\ res.status = 400
             /\ res.body.error = "Validation failed"
             /\ {res.body.details[i].path : i \in 1..Len(res.body.details)}
                   = Offending(req.body)

\* C20: list-all is answered with success, with a count equal to the
\* number of records in data, to the number of stored tasks and to the
\* number of successful creates less the number of successful deletes,
\* and with an empty data and count 0 when no task is stored
C20_ListCountsStoredTasks ==
    Answered("list") =>
        /\ res.status = 200 /\ res.body.success
        /\ res.body.count = Len(res.body.data)
        /\ res.body.count = Cardinality(rows)
        /\ res.body.count = Cardinality(issued) - Cardinality(deleted)
        /\ rows = {} => res.body.data = <<>> /\ res.body.count = 0

\* a list-all was answered with no task and count 0 after the only task
\* created was deleted
C20_Witness ==
    /\ Answered("list")
    /\ res.status = 200 /\ res.body.data = <<>> /\ res.body.count = 0
    /\ issued # {} /\ issued = deleted

\* the summary of the failure of each operation
FailureSummary(op) ==
    CASE op = "list" -> "Failed to fetch tasks"
      [] op = "get" -> "Failed to fetch task"
      [] op = "post" -> "Failed to create task"
      [] op = "put" -> "Failed to update task"
      [] op = "patch" -> "Failed to update task status"
      [] op = "delete" -> "Failed to delete task"

\* C21: a request whose statement fails in the store is settled in that
\* step with status 500 and the envelope holding the summary of its
\* operation and the message of the error, the table is left as it was and
\* the statement is not run again; every request that is settled has one
\* response, which stays as it is until the connection takes another
\* request; and a response of success comes from a statement that ran
C21_FailuresAnswered ==
    [][\A k \in Slots :
          /\ Fault(k) =>
                /\ flight'[k].stage = "done"
                /\ flight'[k].res =
                      Response(500, [success |-> FALSE,
                                     error |-> FailureSummary(flight[k].req.op),
                                     message |-> StorageError])
                /\ rows' = rows /\ seq' = seq
          /\ Completes(k) =>
                /\ flight'[k].res.status \in {200, 201, 400, 404, 500}
                /\ flight'[k].res.status \in {200, 201} => flight'[k].res.body.success /\ ~Fault(k)
                /\ flight'[k].res.status \notin {200, 201} => ~flight'[k].res.body.success
          /\ flight[k].stage = "done" =>
                flight'[k] = flight[k] \/ flight'[k].stage = "received"]_vars

\* a create failed in the store and was answered 500 while a task is
\* stored and another request is in flight
C21_Witness ==
    \E k \in Slots :
       /\ Settled(k, "post", 500)
       /\ flight[k].res.body.message = StorageError
       /\ flight[k].beside # {}
       /\ rows # {}

\* the page the path of a navigation stands for: '/' is home, '/create' is
\* create, '/edit/<x>' with one segment x is edit, every other path is home
PageOfPath(path) ==
    IF path = Root THEN "home"
    ELSE IF path = CreatePath THEN "create"
    ELSE IF /\ Len(path) >= 6
            /\ SubSeq(path, 1, 6) = <<"/", "e", "d", "i", "t", "/">>
            /\ \A i \in 7..Len(path) : path[i] # "/"
         THEN "edit"
         ELSE "home"

AllPagesExist == \A p \in PageNames : Exists(view, p)

\* C22: when the three page elements exist, a call of navigateTo(path)
\* leaves getCurrentPage() at the page of the route of the path, home for a
\* path no route matches, whatever navigations came before
C22_NavigateToSetsCurrentPage ==
    [][\A path \in Paths :
          NavigateTo(path) /\ AllPagesExist => view'.currentPage = PageOfPath(path)]_vars

\* a navigation went from a path no route matches to an edit path, in a
\* document with the three page elements
C22_Witness ==
    /\ AllPagesExist
    /\ view.index = 2
    /\ view.entries = <<UnknownPath, EditPath(<<"2">>)>>
    /\ view.loaded["home"] = ""
    /\ view.currentPage = "edit"

\* the element of the current page is displayed and every other page
\* element is hidden
OnePageVisible(v) ==
    /\ v.display[v.currentPage] = "block"
    /\ \A p \in PageNames \ {v.currentPage} : v.display[p] \in {"none", "absent"}

\* the document was loaded with its home element displayed
LoadedAtHome(v) == v.loaded["home"] = "block"

\* C23: after every call of navigateTo, in any sequence and from any page
\* the client was loaded at, the element of the current page has display
\* block and every other page element has display none
C23_OnePageVisible ==
    [][\A path \in Paths : NavigateTo(path) => OnePageVisible(view')]_vars

\* C23 as amended: the same, for a document that was loaded with its home
\* element displayed
C23_OnePageVisibleLoadedAtHome ==
    [][\A path \in Paths :
          NavigateTo(path) /\ LoadedAtHome(view) => OnePageVisible(view')]_vars

\* a client loaded at the create path of a document without an edit
\* element has navigated to an edit path and shows the home page
C23_Witness ==
    /\ LoadedAtHome(view)
    /\ ~Exists(view, "edit")
    /\ view.entries = <<CreatePath, EditPath(<<"1">>)>>
    /\ view.index = 2
    /\ view.currentPage = "home"
    /\ OnePageVisible(view)

\* the calls of the page-change handler a navigation owes: one call with
\* the new page when the current page changed, none when it did not
OwedCalls == IF view'.currentPage # view.currentPage THEN <<view'.currentPage>> ELSE <<>>

\* the step is a navigation: a call of navigateTo or a popstate event
Navigation == (\E path \in Paths : NavigateTo(path)) \/ (\E delta \in {-1, 1} : Popstate(delta))

\* navigateTo has pushed an entry for the path: it is the current and the
\* last entry, after the entries up to the one that was current, less the
\* oldest one when the history was full
Pushed(path) ==
    /\ Len(view'.entries) = view'.index
    /\ view'.entries[view'.index] = path
    /\ LET before == SubSeq(view.entries, 1, view.index)
       IN  SubSeq(view'.entries, 1, view'.index - 1) =
              IF view.index = MaxHistory THEN Tail(before) ELSE before

MissingInput(title, dueDate) == title \in {<<>>, Blank} \/ dueDate = <<>>

\* the step is a submission of the task form with these inputs: a submit
\* event on the form or a click on its submit button
Submission(title, dueDate) == SubmitEvent(title, dueDate) \/ ClickSubmit(title, dueDate)

\* the create requests the step has issued
NewCreates ==
    {a \in Runs : /\ runs[a] = NoRun
                  /\ runs'[a] # NoRun
                  /\ runs'[a].fetch = Sent("post", 0)}

\* C25: a submission of the create form with an empty or white-space title
\* or an empty due date issues no request, shows the validation errors, and
\* leaves the list of tasks as it was
C25_InvalidCreateNotSent ==
    [][\A title \in TitleInputs, dueDate \in DateInputs :
          Submission(title, dueDate) /\ MissingInput(title, dueDate) =>
             /\ runs' = runs
             /\ mgr'.formErrors
             /\ mgr'.tasks = mgr.tasks]_vars

\* the create page shows validation errors over a loaded list of one task,
\* and no create request is on its way
C25_Witness ==
    /\ Shows("create")
    /\ mgr.formErrors
    /\ mgr.tasks = {1}
    /\ \A a \in Runs : runs[a] = NoRun

\* the message the thrown error of a non-OK response has to carry: the
\* error field of its body, or the status when the body has none
MessageOwed(got) ==
    IF got.body.json /\ "error" \in DOMAIN got.body.value
    THEN <<got.body.value.error>>
    ELSE <<"HTTP error! status: ", got.status>>

\* C26: a call of taskApi that gets a non-OK response throws an error whose
\* message is the error field of the body, or 'HTTP error! status: <code>'
\* when the body has none; a call whose fetch is rejected throws; no call
\* returns an envelope for a non-OK response
C26_NonOkThrows ==
    [][\A a \in Runs, got \in Results :
          Settle(a, got) =>
             /\ got = Down => request(got).thrown
             /\ got # Down /\ ~got.ok =>
                   /\ request(got).thrown
                   /\ request(got).message = MessageOwed(got)]_vars

\* C27: one submission of a valid create form, a submit event on the form
\* or a click on its submit button, issues one create request, whether or
\* not the listener of the form has been registered beside the listeners
\* of the document
C27_OneCreatePerSubmission ==
    [][\A title \in TitleInputs, dueDate \in DateInputs :
          Submission(title, dueDate) /\ ~MissingInput(title, dueDate) =>
             Cardinality(NewCreates) = 1]_vars

\* a loadTasks call is in progress
Loading(a) == runs[a] # NoRun /\ runs[a].pc = "reload"

\* C28: when no loadTasks call is in progress and the one issued last has
\* succeeded, the list held is the result of that call
C28_LastIssuedWins ==
    (latest.done /\ latest.ok /\ \A a \in Runs : ~Loading(a)) => mgr.tasks = latest.data

\* the update and delete requests the step has issued
NewChanges ==
    {a \in Runs : /\ runs'[a] # NoRun
                  /\ runs'[a].pc = "api"
                  /\ runs'[a].fetch.op \in {"put", "delete"}
                  /\ runs'[a].fetch.stage = "sent"
                  /\ runs[a] # runs'[a]}

\* C29: a task that was deleted from the edit page is not the task being
\* edited any more, and no update or delete request is issued for its id
C29_DeletedNotEdited ==
    [][/\ mgr'.currentEditingTask \notin erased'
       /\ \A a \in NewChanges : runs'[a].fetch.id \notin erased]_vars

\* the step ends the loadTasks call of a, alone or awaited by a handler
EndsLoad(a) == Loading(a) /\ (runs'[a] = NoRun \/ runs'[a].pc = "api")

\* the step ends the call of kind k of a
EndsRun(a, k) == runs[a] # NoRun /\ runs[a].kind = k /\ runs'[a] = NoRun

\* C30: every call of a handler ends; a loadTasks call ends with the loading
\* indicator hidden, a create and an update attempt end with their button
\* enabled and not loading; so each indicator that is shown is cleared
C30_BusyCleared ==
    /\ \A a \in Runs : (runs[a] # NoRun) ~> (runs[a] = NoRun)
    /\ mgr.loading ~> ~mgr.loading
    /\ mgr.creating ~> ~mgr.creating
    /\ mgr.updating ~> ~mgr.updating
    /\ [][\A a \in Runs :
             /\ EndsLoad(a) => ~mgr'.loading
             /\ EndsRun(a, "create") => ~mgr'.creating
             /\ EndsRun(a, "update") => ~mgr'.updating]_vars

\* every call has ended and the indicators are clear on the edit page,
\* after a loadTasks call that failed
C30_Witness ==
    /\ \A a \in Runs : runs[a] = NoRun
    /\ ~mgr.loading /\ ~mgr.creating /\ ~mgr.updating
    /\ mgr.currentEditingTask = 1
    /\ Shows("edit")
    /\ latest.done /\ ~latest.ok

====
